---- MODULE Spec2Model ----
(***************************************************************************)
(* asciinema2video: the conversion pipeline of src/src/program.ts.         *)
(*                                                                         *)
(* Text that the code inspects character by character (the numeric CLI     *)
(* flags, the cast content) is a sequence of one-character strings or of   *)
(* code points; text that the code only concatenates (paths, error         *)
(* messages) is a TLA+ string.                                             *)
(***************************************************************************)
EXTENDS Integers, Sequences, FiniteSets, TLC

(***************************************************************************)
(* Bounds of the model.                                                    *)
(***************************************************************************)
MaxLen == 3
MaxCast == 3
MaxRuns == 2
MaxSignals == 2
MaxConsole == 2

(***************************************************************************)
(* JavaScript numbers, as far as parseInt and parseFloat produce them from *)
(* the flag alphabet: NaN, or the decimal fraction num / den, den a power  *)
(* of ten, in lowest decimal form.                                         *)
(***************************************************************************)
NaN == [nan |-> TRUE, num |-> 0, den |-> 1]

RECURSIVE Norm(_, _)
Norm(n, d) ==
  IF d > 1 /\ n % 10 = 0 THEN Norm(n \div 10, d \div 10)
  ELSE [nan |-> FALSE, num |-> n, den |-> d]

Num(n) == [nan |-> FALSE, num |-> n, den |-> 1]

Digits == {"0", "1", "2", "3", "4", "5", "6", "7", "8", "9"}

DigitVal(c) ==
  CASE c = "0" -> 0 [] c = "1" -> 1 [] c = "2" -> 2 [] c = "3" -> 3
    [] c = "4" -> 4 [] c = "5" -> 5 [] c = "6" -> 6 [] c = "7" -> 7
    [] c = "8" -> 8 [] c = "9" -> 9

\* The longest prefix of s made of decimal digits.
RECURSIVE DigitPrefix(_)
DigitPrefix(s) ==
  IF s # <<>> /\ Head(s) \in Digits THEN <<Head(s)>> \o DigitPrefix(Tail(s))
  ELSE <<>>

\* The mathematical value of a digit sequence, accumulated left to right.
RECURSIVE DigitsValue(_, _)
DigitsValue(acc, s) ==
  IF s = <<>> THEN acc ELSE DigitsValue(acc * 10 + DigitVal(Head(s)), Tail(s))

RECURSIVE Pow10(_)
Pow10(k) == IF k = 0 THEN 1 ELSE 10 * Pow10(k - 1)

Drop(s, k) == SubSeq(s, k + 1, Len(s))

HasSign(s) == s # <<>> /\ Head(s) \in {"-", "+"}

Unsigned(s) == IF HasSign(s) THEN Tail(s) ELSE s

Sign(s) == IF s # <<>> /\ Head(s) = "-" THEN -1 ELSE 1

\* Number.parseInt(s, 10): optional sign, then the longest run of digits;
\* whatever follows is ignored; no digit at all gives NaN.
ParseInt(s) ==
  LET ds == DigitPrefix(Unsigned(s))
  IN  IF ds = <<>> THEN NaN ELSE Num(Sign(s) * DigitsValue(0, ds))

\* Number.parseFloat(s): optional sign, then the longest prefix that is a
\* decimal literal (digits, optionally a point and more digits; or a point
\* followed by digits); whatever follows is ignored; no such prefix gives NaN.
ParseFloat(s) ==
  LET u    == Unsigned(s)
      ip   == DigitPrefix(u)
      r    == Drop(u, Len(ip))
      dot  == r # <<>> /\ Head(r) = "."
      fp   == IF dot THEN DigitPrefix(Tail(r)) ELSE <<>>
  IN  IF ip = <<>> /\ fp = <<>> THEN NaN
      ELSE Norm(Sign(s) * DigitsValue(0, ip \o fp), Pow10(Len(fp)))

(***************************************************************************)
(* The CLI surface and the option normalizer.                              *)
(***************************************************************************)
THEMES == {"asciinema", "dracula", "gruvbox-dark", "monokai",
           "solarized-dark", "solarized-light", "tango", "nord"}

NumericFields == {"width", "height", "speed", "scale"}

\* The defaults parseCliArguments gives the flags.
CliDefaults ==
  [output |-> "output.mp4", width |-> <<"8", "0", "0">>,
   height |-> <<"6", "0", "0">>, theme |-> "asciinema",
   speed |-> <<"1">>, scale |-> <<"2">>]

\* A plausible slip: the height is parsed from the width flag.
parseOptionsCopyPaste(o) ==
  [output |-> o.output,
   width  |-> ParseInt(o.width),
   height |-> ParseInt(o.width),
   theme  |-> o.theme,
   speed  |-> ParseFloat(o.speed),
   scale  |-> ParseFloat(o.scale)]

parseOptions(o) ==
  [output |-> o.output,
   width  |-> ParseInt(o.width),
   height |-> ParseInt(o.height),
   theme  |-> o.theme,
   speed  |-> ParseFloat(o.speed),
   scale  |-> ParseFloat(o.scale)]

\* The texts a numeric flag takes in the model: every text of at most
\* MaxLen characters over digits, the point, the sign and a letter (no
\* white space, no exponent marker).
FlagChars == {"0", "1", ".", "-", "x"}

FlagTexts == UNION {[1..k -> FlagChars] : k \in 0..MaxLen}

OutputPaths == {"output.mp4", "demo.mp4"}

\* The values the n-th flag of a command line takes for the option f: the
\* first flag any text, a second one, when numeric, a text of one character
\* at most.
ShortTexts == UNION {[1..k -> FlagChars] : k \in 0..1}

FlagValues(f, n) ==
  IF f \in NumericFields THEN (IF n = 0 THEN FlagTexts ELSE ShortTexts)
  ELSE IF f = "theme" THEN THEMES ELSE OutputPaths

VARIABLES
  options,    \* ConvertOptions: what commander hands to the action
  nflags,     \* how many flags the command line gave (two at most)
  parsePc,    \* "cli" while the command line is read, then "parsed"
  parsed      \* ParsedOptions: the result of parseOptions

parseVars == <<options, nflags, parsePc, parsed>>

ParseInit ==
  /\ options = CliDefaults
  /\ nflags = 0
  /\ parsePc = "cli"
  /\ parsed = [output |-> "", width |-> NaN, height |-> NaN,
               theme |-> "", speed |-> NaN, scale |-> NaN]

\* commander stores the value of one flag given on the command line.
CliFlag(f, v) ==
  /\ parsePc = "cli"
  /\ nflags < 2
  /\ options' = [options EXCEPT ![f] = v]
  /\ nflags' = nflags + 1
  /\ UNCHANGED <<parsePc, parsed>>

\* convertCastToVideo applies parseOptions to the options.
ParseStep ==
  /\ parsePc = "cli"
  /\ parsed' = parseOptions(options)
  /\ parsePc' = "parsed"
  /\ UNCHANGED <<options, nflags>>

(***************************************************************************)
(* The cast data URI.  A JavaScript string is a sequence of UTF-16 code    *)
(* units; a Buffer is a sequence of bytes; a base64 text is a sequence of  *)
(* one-character strings.                                                  *)
(***************************************************************************)
IsHighSurrogate(u) == u >= 55296 /\ u <= 56319

IsLowSurrogate(u) == u >= 56320 /\ u <= 57343

\* The UTF-8 bytes of one code point.
Utf8OfCodePoint(cp) ==
  IF cp < 128 THEN <<cp>>
  ELSE IF cp < 2048 THEN <<192 + (cp \div 64), 128 + (cp % 64)>>
  ELSE IF cp < 65536 THEN
    <<224 + (cp \div 4096), 128 + ((cp \div 64) % 64), 128 + (cp % 64)>>
  ELSE
    <<240 + (cp \div 262144), 128 + ((cp \div 4096) % 64),
      128 + ((cp \div 64) % 64), 128 + (cp % 64)>>

\* Buffer.from(text) (the default encoding is UTF-8): a surrogate pair is
\* one code point, a lone surrogate is written as U+FFFD.
RECURSIVE Utf8Encode(_)
Utf8Encode(s) ==
  IF s = <<>> THEN <<>>
  ELSE IF IsHighSurrogate(s[1]) /\ Len(s) >= 2 /\ IsLowSurrogate(s[2]) THEN
    Utf8OfCodePoint(65536 + (s[1] - 55296) * 1024 + (s[2] - 56320))
      \o Utf8Encode(Drop(s, 2))
  ELSE IF IsHighSurrogate(s[1]) \/ IsLowSurrogate(s[1]) THEN
    <<239, 191, 189>> \o Utf8Encode(Tail(s))
  ELSE Utf8OfCodePoint(s[1]) \o Utf8Encode(Tail(s))

\* Buffer.from(text, 'latin1'): one byte per code unit, the high byte lost
\* (what a wrong encoding argument would do).
RECURSIVE Latin1Encode(_)
Latin1Encode(s) ==
  IF s = <<>> THEN <<>> ELSE <<s[1] % 256>> \o Latin1Encode(Tail(s))

\* The UTF-16 code units of one code point.
Utf16OfCodePoint(cp) ==
  IF cp < 65536 THEN <<cp>>
  ELSE <<55296 + ((cp - 65536) \div 1024), 56320 + ((cp - 65536) % 1024)>>

IsCont(b, k) == Len(b) >= k /\ b[k] >= 128 /\ b[k] < 192

\* buffer.toString('utf-8'): a malformed sequence is read as U+FFFD.
RECURSIVE Utf8Decode(_)
Utf8Decode(b) ==
  IF b = <<>> THEN <<>>
  ELSE IF b[1] < 128 THEN <<b[1]>> \o Utf8Decode(Tail(b))
  ELSE IF b[1] >= 192 /\ b[1] < 224 /\ IsCont(b, 2) THEN
    <<(b[1] - 192) * 64 + (b[2] - 128)>> \o Utf8Decode(Drop(b, 2))
  ELSE IF b[1] >= 224 /\ b[1] < 240 /\ IsCont(b, 2) /\ IsCont(b, 3) THEN
    <<(b[1] - 224) * 4096 + (b[2] - 128) * 64 + (b[3] - 128)>>
      \o Utf8Decode(Drop(b, 3))
  ELSE IF b[1] >= 240 /\ b[1] < 248 /\ IsCont(b, 2) /\ IsCont(b, 3)
          /\ IsCont(b, 4) THEN
    Utf16OfCodePoint((b[1] - 240) * 262144 + (b[2] - 128) * 4096
                     + (b[3] - 128) * 64 + (b[4] - 128))
      \o Utf8Decode(Drop(b, 4))
  ELSE <<65533>> \o Utf8Decode(Tail(b))

B64Alphabet ==
  <<"A", "B", "C", "D", "E", "F", "G", "H", "I", "J", "K", "L", "M",
    "N", "O", "P", "Q", "R", "S", "T", "U", "V", "W", "X", "Y", "Z",
    "a", "b", "c", "d", "e", "f", "g", "h", "i", "j", "k", "l", "m",
    "n", "o", "p", "q", "r", "s", "t", "u", "v", "w", "x", "y", "z",
    "0", "1", "2", "3", "4", "5", "6", "7", "8", "9", "+", "/">>

B64Char(v) == B64Alphabet[v + 1]

B64Index(c) == (CHOOSE i \in 1..64 : B64Alphabet[i] = c) - 1

IsB64Char(c) == \E i \in 1..64 : B64Alphabet[i] = c

\* buffer.toString('base64'): three bytes give four characters; a last
\* group of one or two bytes is padded with "=".
RECURSIVE Base64Encode(_)
Base64Encode(b) ==
  IF b = <<>> THEN <<>>
  ELSE IF Len(b) = 1 THEN
    <<B64Char(b[1] \div 4), B64Char((b[1] % 4) * 16), "=", "=">>
  ELSE IF Len(b) = 2 THEN
    <<B64Char(b[1] \div 4), B64Char((b[1] % 4) * 16 + (b[2] \div 16)),
      B64Char((b[2] % 16) * 4), "=">>
  ELSE
    <<B64Char(b[1] \div 4), B64Char((b[1] % 4) * 16 + (b[2] \div 16)),
      B64Char((b[2] % 16) * 4 + (b[3] \div 64)), B64Char(b[3] % 64)>>
      \o Base64Encode(Drop(b, 3))

\* The characters of a base64 text before its first "=".
RECURSIVE B64Payload(_)
B64Payload(c) ==
  IF c = <<>> \/ Head(c) = "=" THEN <<>>
  ELSE IF IsB64Char(Head(c)) THEN <<B64Index(Head(c))>> \o B64Payload(Tail(c))
  ELSE B64Payload(Tail(c))

RECURSIVE B64Bytes(_)
B64Bytes(v) ==
  IF Len(v) < 2 THEN <<>>
  ELSE IF Len(v) = 2 THEN <<v[1] * 4 + (v[2] \div 16)>>
  ELSE IF Len(v) = 3 THEN
    <<v[1] * 4 + (v[2] \div 16), (v[2] % 16) * 16 + (v[3] \div 4)>>
  ELSE
    <<v[1] * 4 + (v[2] \div 16), (v[2] % 16) * 16 + (v[3] \div 4),
      (v[3] % 4) * 64 + v[4]>> \o B64Bytes(Drop(v, 4))

\* Buffer.from(text, 'base64'): decoding stops at the padding.
Base64Decode(c) == B64Bytes(B64Payload(c))

\* 'data:application/json;base64,'
DataUriPrefix ==
  <<"d", "a", "t", "a", ":", "a", "p", "p", "l", "i", "c", "a", "t", "i",
    "o", "n", "/", "j", "s", "o", "n", ";", "b", "a", "s", "e", "6", "4",
    ",">>

createCastDataUriLatin1(castContent) ==
  DataUriPrefix \o Base64Encode(Latin1Encode(castContent))

createCastDataUri(castContent) ==
  DataUriPrefix \o Base64Encode(Utf8Encode(castContent))

StartsWith(s, p) == Len(s) >= Len(p) /\ SubSeq(s, 1, Len(p)) = p

\* dataUri.replace(prefix, ''): the first occurrence of the prefix is
\* removed; the prefix occurs at the start of every URI the code builds.
StripPrefix(uri) ==
  IF StartsWith(uri, DataUriPrefix) THEN Drop(uri, Len(DataUriPrefix))
  ELSE uri

\* The code points of the cast contents of the model: one of each UTF-8
\* length (A, e-acute, the euro sign, an emoji).
CastCodePoints == {65, 233, 8364, 128512}

RECURSIVE Utf16Of(_)
Utf16Of(cps) ==
  IF cps = <<>> THEN <<>> ELSE Utf16OfCodePoint(Head(cps)) \o Utf16Of(Tail(cps))

\* What fs.readFileSync(path, 'utf-8') returns: well-formed UTF-16.
CastTexts ==
  {Utf16Of(cps) : cps \in UNION {[1..k -> CastCodePoints] : k \in 0..MaxCast}}

VARIABLES
  castContent,  \* the text read from the cast file
  dataUri,      \* the result of createCastDataUri
  decoded,      \* the text decoded back from the URI
  uriPc         \* "read", "encoded", "decoded"

uriVars == <<castContent, dataUri, decoded, uriPc>>

UriInit(texts) ==
  /\ castContent \in texts
  /\ dataUri = <<>>
  /\ decoded = <<>>
  /\ uriPc = "read"

CreateUriStep ==
  /\ uriPc = "read"
  /\ dataUri' = createCastDataUri(castContent)
  /\ uriPc' = "encoded"
  /\ UNCHANGED <<castContent, decoded>>

\* The decoding the repository's test applies to the URI.
DecodeUriStep ==
  /\ uriPc = "encoded"
  /\ decoded' = Utf8Decode(Base64Decode(StripPrefix(dataUri)))
  /\ uriPc' = "decoded"
  /\ UNCHANGED <<castContent, dataUri>>

(***************************************************************************)
(* The page composer, generateHtml.  Texts are sequences of characters, so *)
(* that where a value lands in the page, and how often it occurs there, is *)
(* computed and not assumed.                                               *)
(***************************************************************************)
MaxAsset == 1

\* The fixed text of the template, the page up to the style content (lines 223-227).
HtmlHead ==
  <<"<", "!", "D", "O", "C", "T", "Y", "P", "E", " ", "h", "t", "m", "l",
    ">", "\n", "<", "h", "t", "m", "l", ">", "\n", "<", "h", "e", "a", "d",
    ">", "\n", " ", " ", "<", "s", "t", "y", "l", "e", ">", "\n", " ", " ",
    " ", " ">>

\* The fixed text of the template, from the style content to the script content (lines 227-246).
HtmlStyleToScript ==
  <<"\n", " ", " ", " ", " ", "b", "o", "d", "y", " ", "{", "\n", " ", " ",
    " ", " ", " ", " ", "m", "a", "r", "g", "i", "n", ":", " ", "0", ";",
    "\n", " ", " ", " ", " ", " ", " ", "p", "a", "d", "d", "i", "n", "g",
    ":", " ", "0", ";", "\n", " ", " ", " ", " ", " ", " ", "d", "i", "s",
    "p", "l", "a", "y", ":", " ", "f", "l", "e", "x", ";", "\n", " ", " ",
    " ", " ", " ", " ", "j", "u", "s", "t", "i", "f", "y", "-", "c", "o",
    "n", "t", "e", "n", "t", ":", " ", "c", "e", "n", "t", "e", "r", ";",
    "\n", " ", " ", " ", " ", " ", " ", "a", "l", "i", "g", "n", "-", "i",
    "t", "e", "m", "s", ":", " ", "c", "e", "n", "t", "e", "r", ";", "\n",
    " ", " ", " ", " ", " ", " ", "h", "e", "i", "g", "h", "t", ":", " ",
    "1", "0", "0", "v", "h", ";", "\n", " ", " ", " ", " ", " ", " ", "b",
    "a", "c", "k", "g", "r", "o", "u", "n", "d", ":", " ", "#", "0", "0",
    "0", ";", "\n", " ", " ", " ", " ", "}", "\n", " ", " ", " ", " ", "#",
    "p", "l", "a", "y", "e", "r", "-", "c", "o", "n", "t", "a", "i", "n",
    "e", "r", " ", "{", "\n", " ", " ", " ", " ", " ", " ", "w", "i", "d",
    "t", "h", ":", " ", "1", "0", "0", "%", ";", "\n", " ", " ", " ", " ",
    " ", " ", "h", "e", "i", "g", "h", "t", ":", " ", "1", "0", "0", "%",
    ";", "\n", " ", " ", " ", " ", "}", "\n", " ", " ", "<", "/", "s", "t",
    "y", "l", "e", ">", "\n", "<", "/", "h", "e", "a", "d", ">", "\n", "<",
    "b", "o", "d", "y", ">", "\n", " ", " ", "<", "d", "i", "v", " ", "i",
    "d", "=", "\"", "p", "l", "a", "y", "e", "r", "-", "c", "o", "n", "t",
    "a", "i", "n", "e", "r", "\"", ">", "<", "/", "d", "i", "v", ">", "\n",
    " ", " ", "<", "s", "c", "r", "i", "p", "t", ">", "\n", " ", " ", " ",
    " ">>

\* The fixed text of the template, from the script content to the data URI (lines 246-251).
HtmlScriptToUri ==
  <<"\n", " ", " ", "<", "/", "s", "c", "r", "i", "p", "t", ">", "\n", " ",
    " ", "<", "s", "c", "r", "i", "p", "t", ">", "\n", " ", " ", " ", " ",
    "t", "r", "y", " ", "{", "\n", " ", " ", " ", " ", " ", " ", "c", "o",
    "n", "s", "t", " ", "c", "o", "n", "t", "a", "i", "n", "e", "r", " ",
    "=", " ", "d", "o", "c", "u", "m", "e", "n", "t", ".", "g", "e", "t",
    "E", "l", "e", "m", "e", "n", "t", "B", "y", "I", "d", "(", "'", "p",
    "l", "a", "y", "e", "r", "-", "c", "o", "n", "t", "a", "i", "n", "e",
    "r", "'", ")", ";", "\n", " ", " ", " ", " ", " ", " ", "w", "i", "n",
    "d", "o", "w", ".", "p", "l", "a", "y", "e", "r", " ", "=", " ", "A",
    "s", "c", "i", "i", "n", "e", "m", "a", "P", "l", "a", "y", "e", "r",
    ".", "c", "r", "e", "a", "t", "e", "(", "'">>

\* The fixed text of the template, from the data URI to the theme (lines 251-252).
HtmlUriToTheme ==
  <<"'", ",", " ", "c", "o", "n", "t", "a", "i", "n", "e", "r", ",", " ",
    "{", "\n", " ", " ", " ", " ", " ", " ", " ", " ", "t", "h", "e", "m",
    "e", ":", " ", "'">>

\* The fixed text of the template, from the theme to the speed (lines 252-253).
HtmlThemeToSpeed ==
  <<"'", ",", "\n", " ", " ", " ", " ", " ", " ", " ", " ", "s", "p", "e",
    "e", "d", ":", " ">>

\* The fixed text of the template, from the speed to the end of the page (lines 253-274).
HtmlTail ==
  <<",", "\n", " ", " ", " ", " ", " ", " ", " ", " ", "f", "o", "n", "t",
    "S", "i", "z", "e", ":", " ", "'", "m", "e", "d", "i", "u", "m", "'",
    ",", "\n", " ", " ", " ", " ", " ", " ", " ", " ", "a", "u", "t", "o",
    "P", "l", "a", "y", ":", " ", "f", "a", "l", "s", "e", ",", "\n", " ",
    " ", " ", " ", " ", " ", " ", " ", "p", "r", "e", "l", "o", "a", "d",
    ":", " ", "t", "r", "u", "e", ",", "\n", " ", " ", " ", " ", " ", " ",
    " ", " ", "f", "i", "t", ":", " ", "'", "b", "o", "t", "h", "'", ",",
    "\n", " ", " ", " ", " ", " ", " ", "}", ")", ";", "\n", "\n", " ", " ",
    " ", " ", " ", " ", "w", "i", "n", "d", "o", "w", ".", "p", "l", "a",
    "y", "e", "r", "E", "l", " ", "=", " ", "w", "i", "n", "d", "o", "w",
    ".", "p", "l", "a", "y", "e", "r", ".", "e", "l", ";", "\n", " ", " ",
    " ", " ", " ", " ", "w", "i", "n", "d", "o", "w", ".", "p", "l", "a",
    "y", "e", "r", "R", "e", "a", "d", "y", " ", "=", " ", "t", "r", "u",
    "e", ";", "\n", " ", " ", " ", " ", " ", " ", "w", "i", "n", "d", "o",
    "w", ".", "p", "l", "a", "y", "e", "r", "E", "n", "d", "e", "d", " ",
    "=", " ", "f", "a", "l", "s", "e", ";", "\n", "\n", " ", " ", " ", " ",
    " ", " ", "w", "i", "n", "d", "o", "w", ".", "p", "l", "a", "y", "e",
    "r", ".", "a", "d", "d", "E", "v", "e", "n", "t", "L", "i", "s", "t",
    "e", "n", "e", "r", "(", "'", "e", "n", "d", "e", "d", "'", ",", " ",
    "(", ")", " ", "=", ">", " ", "{", "\n", " ", " ", " ", " ", " ", " ",
    " ", " ", " ", "s", "e", "t", "T", "i", "m", "e", "o", "u", "t", "(",
    "(", ")", " ", "=", ">", " ", "{", "\n", " ", " ", " ", " ", " ", " ",
    " ", " ", " ", " ", " ", " ", "w", "i", "n", "d", "o", "w", ".", "p",
    "l", "a", "y", "e", "r", "E", "n", "d", "e", "d", " ", "=", " ", "t",
    "r", "u", "e", ";", "\n", " ", " ", " ", " ", " ", " ", " ", " ", " ",
    "}", ",", " ", "1", "0", "0", "0", ")", ";", "\n", " ", " ", " ", " ",
    " ", " ", "}", ")", ";", "\n", " ", " ", " ", " ", "}", " ", "c", "a",
    "t", "c", "h", " ", "(", "e", "r", "r", "o", "r", ")", " ", "{", "\n",
    " ", " ", " ", " ", " ", " ", "w", "i", "n", "d", "o", "w", ".", "p",
    "l", "a", "y", "e", "r", "E", "r", "r", "o", "r", " ", "=", " ", "e",
    "r", "r", "o", "r", ".", "t", "o", "S", "t", "r", "i", "n", "g", "(",
    ")", ";", "\n", " ", " ", " ", " ", "}", "\n", " ", " ", "<", "/", "s",
    "c", "r", "i", "p", "t", ">", "\n", "<", "/", "b", "o", "d", "y", ">",
    "\n", "<", "/", "h", "t", "m", "l", ">">>

\* The decimal digits of a natural number, as JavaScript prints them.
RECURSIVE NatToString(_)
NatToString(n) ==
  LET d == <<"0", "1", "2", "3", "4", "5", "6", "7", "8", "9">>[(n % 10) + 1]
  IN  IF n < 10 THEN <<d>> ELSE NatToString(n \div 10) \o <<d>>

\* The digits of n, padded with zeros on the left to the width w.
RECURSIVE ZeroPad(_, _)
ZeroPad(s, w) == IF Len(s) >= w THEN s ELSE ZeroPad(<<"0">> \o s, w)

\* The number of decimal places of a denominator that is a power of ten.
RECURSIVE Places(_)
Places(d) == IF d = 1 THEN 0 ELSE 1 + Places(d \div 10)

\* What a template literal writes for a number: "NaN", or the sign, the
\* integer part and, when there is one, the point and the fraction.
NumberToString(x) ==
  IF x.nan THEN <<"N", "a", "N">>
  ELSE LET a == IF x.num < 0 THEN -x.num ELSE x.num
           s == IF x.num < 0 THEN <<"-">> ELSE <<>>
           i == NatToString(a \div x.den)
           f == IF x.den = 1 THEN <<>>
                ELSE <<".">> \o ZeroPad(NatToString(a % x.den), Places(x.den))
       IN  s \o i \o f

\* The characters of a theme name.
ThemeChars(theme) ==
  CASE theme = "asciinema" -> <<"a", "s", "c", "i", "i", "n", "e", "m", "a">>
    [] theme = "dracula" -> <<"d", "r", "a", "c", "u", "l", "a">>
    [] theme = "gruvbox-dark" ->
         <<"g", "r", "u", "v", "b", "o", "x", "-", "d", "a", "r", "k">>
    [] theme = "monokai" -> <<"m", "o", "n", "o", "k", "a", "i">>
    [] theme = "solarized-dark" ->
         <<"s", "o", "l", "a", "r", "i", "z", "e", "d", "-", "d", "a", "r", "k">>
    [] theme = "solarized-light" ->
         <<"s", "o", "l", "a", "r", "i", "z", "e", "d", "-", "l", "i", "g", "h", "t">>
    [] theme = "tango" -> <<"t", "a", "n", "g", "o">>
    [] theme = "nord" -> <<"n", "o", "r", "d">>

\* A plausible slip: the script lands in the style element and the style
\* in the script element.
generateHtmlSwapped(playerAssets, castDataUri, parsedOptions) ==
  HtmlHead \o playerAssets.jsContent \o HtmlStyleToScript
    \o playerAssets.cssContent \o HtmlScriptToUri \o castDataUri
    \o HtmlUriToTheme \o ThemeChars(parsedOptions.theme) \o HtmlThemeToSpeed
    \o NumberToString(parsedOptions.speed) \o HtmlTail

\* generateHtml: the template literal with its five substitutions.
generateHtml(playerAssets, castDataUri, parsedOptions) ==
  HtmlHead \o playerAssets.cssContent \o HtmlStyleToScript
    \o playerAssets.jsContent \o HtmlScriptToUri \o castDataUri
    \o HtmlUriToTheme \o ThemeChars(parsedOptions.theme) \o HtmlThemeToSpeed
    \o NumberToString(parsedOptions.speed) \o HtmlTail

\* The asset contents of the model: texts of at most MaxAsset characters,
\* one character that the template holds and one that it does not.
AssetTexts == UNION {[1..k -> {"0", "q"}] : k \in 0..MaxAsset}

\* The data URIs of the casts of at most one UTF-16 code unit.
HtmlUris == {createCastDataUri(c) : c \in {x \in CastTexts : Len(x) <= 1}}

HtmlThemes == {"asciinema", "dracula", "nord"}

\* The speeds parseOptions gives for a few flag texts.
HtmlSpeeds ==
  {ParseFloat(s) : s \in {<<"1">>, <<"1", ".", "5">>, <<"x">>, <<"-", ".", "2", "5">>}}

VARIABLES
  htmlArgs,   \* the arguments of generateHtml
  html,       \* the page it returned
  htmlPc      \* "call", "done"

htmlVars == <<htmlArgs, html, htmlPc>>

HtmlInit(assets, uris, themes, speeds) ==
  /\ htmlArgs \in [cssContent : assets, jsContent : assets, castDataUri : uris,
                   theme : themes, speed : speeds]
  /\ html = <<>>
  /\ htmlPc = "call"

GenerateHtmlStep ==
  /\ htmlPc = "call"
  /\ html' = generateHtml([cssContent |-> htmlArgs.cssContent,
                           jsContent |-> htmlArgs.jsContent],
                          htmlArgs.castDataUri,
                          [theme |-> htmlArgs.theme, speed |-> htmlArgs.speed])
  /\ htmlPc' = "done"
  /\ UNCHANGED htmlArgs

(***************************************************************************)
(* The conversion pipeline: convertCastToVideo, the CLI action around it   *)
(* and the process it runs in.  A run is one invocation of                 *)
(* convertCastToVideo; pc[r] is the statement the run is at, an awaited    *)
(* call being a position of its own that the collaborator leaves by        *)
(* resolving or by rejecting.                                              *)
(***************************************************************************)
Runs == 1..MaxRuns

Signals == {"SIGINT", "SIGTERM"}

\* The working directory and the files that exist in it.
Cwd == "/work"

ExistingFiles == {"/work/demo.cast"}

InputPaths ==
  {[abs |-> FALSE, text |-> "demo.cast"],
   [abs |-> FALSE, text |-> "missing.cast"],
   [abs |-> TRUE, text |-> "/tmp/gone.cast"]}

\* The option sets of the runs: the CLI defaults, and a command line that
\* changes every numeric flag and gives a width that is not a number.
RunOptions ==
  {CliDefaults,
   [CliDefaults EXCEPT !.width = <<"a", "b", "c">>,
                       !.height = <<"1", "0", "8", "0">>,
                       !.speed = <<"1", ".", "5">>,
                       !.scale = <<"3">>]}

\* path.resolve, on paths that hold no "." or ".." segment.
PathResolve(p) == IF p.abs THEN p.text ELSE Cwd \o "/" \o p.text

\* A plausible slip: the message names the path as given.
InputNotFoundUnresolved(inputPath) == "Input file not found: " \o inputPath.text

\* The message of the error validateInputFile throws.
InputNotFound(inputPath) == "Input file not found: " \o PathResolve(inputPath)

\* The value of window.playerError: unset, or a text.
Unset == [set |-> FALSE, text |-> ""]

Text(s) == [set |-> TRUE, text |-> s]

\* JavaScript truthiness of such a value.
Truthy(v) == v.set /\ v.text # ""

PlayerErrors == {Unset, Text(""), Text("boom")}

\* A plausible slip: the detail is appended whatever the flag holds.
PlayerFailedAlways(playerError) ==
  "Player failed to initialize: " \o playerError.text

\* The message of the error setupPlayer throws after a failed wait.
PlayerFailed(playerError) ==
  IF Truthy(playerError)
  THEN "Player failed to initialize: " \o playerError.text
  ELSE "Player failed to initialize"

\* A plausible slip: width and height change places.
ViewportSwapped(o) ==
  [width |-> o.height, height |-> o.width, deviceScaleFactor |-> o.scale]

Viewport(o) ==
  [width |-> o.width, height |-> o.height, deviceScaleFactor |-> o.scale]

\* The argument setupBrowser passes to page.setViewport.
\* (Viewport, above.)  The configuration recordVideo constructs the recorder
\* with.
RecorderConfig(o) == [fps |-> 60, width |-> o.width, height |-> o.height]

VARIABLES
  mode,         \* "cli": the CLI action runs run 1; "host": a host calls the runs
                \* one after the other; "par": a host runs two at a time
  procState,    \* "running" or "exited"
  exitStatus,   \* the exit status of the process, -1 while it runs
  exitCalls,    \* the number of process.exit calls
  errorLog,     \* the consola.error calls: [site, text]
  cliCaught,    \* how many times the CLI action's catch block ran
  listeners,    \* listeners[sig]: the runs whose cleanup is registered for sig
  nsignals,     \* the number of signals delivered to the process
  pc,           \* pc[r]: the position of run r
  inputPath,    \* inputPath[r], options of the run and their parsed form
  runOptions,
  runParsed,
  err,          \* err[r]: the message of the error the run fails with, "" if none
  failed,       \* failed[r]: the stage that failed in the run, "" if none
  assetsRead,   \* assetsRead[r]: the player assets have been read
  launchCalls,  \* launchCalls[r]: the puppeteer.launch calls
  browser,      \* browser[r]: "none", "open", "closing", "closed"
  closeCalls,   \* closeCalls[r]: the browser.close calls
  cleanups,     \* cleanups[r]: the cleanup calls that await their close
  viewportArgs, \* viewportArgs[r]: the arguments of the page.setViewport calls
  recorderArgs, \* recorderArgs[r]: the configurations of the recorders built
  recorder,     \* recorder[r]: "none", "starting", "started", "stopping", "stopped"
  playerReady,  \* the page's flags
  playerError,
  playback,     \* playback[r]: "idle", "playing", "ended" (the player's event)
  playerEnded,
  calls,        \* calls[r]: the stages entered and the external calls made, in order
  console       \* console[r]: the page's console messages and their forwarding

procVars == <<procState, exitStatus, exitCalls, errorLog, cliCaught>>

inputVars == <<inputPath, runOptions, runParsed>>

browserVars == <<launchCalls, browser, closeCalls, cleanups>>

callVars == <<assetsRead, viewportArgs, recorderArgs, recorder>>

pageVars == <<playerReady, playerError, playback, playerEnded>>

runVars ==
  <<mode, procVars, listeners, nsignals, pc, inputVars, err, failed,
    browserVars, callVars, pageVars, calls, console>>

\* No console listener on the page, no message emitted, none forwarded.
NoConsole == [on |-> FALSE, emitted |-> 0, forwarded |-> 0]

NoParsed ==
  [output |-> "", width |-> NaN, height |-> NaN, theme |-> "",
   speed |-> NaN, scale |-> NaN]

RunInit(modes) ==
  /\ mode \in modes
  /\ procState = "running"
  /\ exitStatus = -1
  /\ exitCalls = 0
  /\ errorLog = <<>>
  /\ cliCaught = 0
  /\ listeners = [s \in Signals |-> {}]
  /\ nsignals = 0
  /\ pc = [r \in Runs |-> "idle"]
  /\ inputPath = [r \in Runs |-> [abs |-> FALSE, text |-> ""]]
  /\ runOptions = [r \in Runs |-> CliDefaults]
  /\ runParsed = [r \in Runs |-> NoParsed]
  /\ err = [r \in Runs |-> ""]
  /\ failed = [r \in Runs |-> ""]
  /\ assetsRead = [r \in Runs |-> FALSE]
  /\ launchCalls = [r \in Runs |-> 0]
  /\ browser = [r \in Runs |-> "none"]
  /\ closeCalls = [r \in Runs |-> 0]
  /\ cleanups = [r \in Runs |-> 0]
  /\ viewportArgs = [r \in Runs |-> <<>>]
  /\ recorderArgs = [r \in Runs |-> <<>>]
  /\ recorder = [r \in Runs |-> "none"]
  /\ playerReady = [r \in Runs |-> FALSE]
  /\ playerError = [r \in Runs |-> Unset]
  /\ playback = [r \in Runs |-> "idle"]
  /\ playerEnded = [r \in Runs |-> FALSE]
  /\ calls = [r \in Runs |-> <<>>]
  /\ console = [r \in Runs |-> NoConsole]

Alive == procState = "running"

Settled(r) == pc[r] \in {"resolved", "rejected"}

\* The run is the latest one started: its locals are still held.
Held(r) == pc[r] # "idle" /\ \A q \in Runs : q > r => pc[q] = "idle"

\* The promise of convertCastToVideo resolves.  Under the CLI the action
\* returns and nothing else happens.
Resolve(r) ==
  /\ pc' = [pc EXCEPT ![r] = "resolved"]
  /\ UNCHANGED <<err, failed, procVars>>

\* A plausible slip: the catch block logs the error and exits with 0.
RejectExitsZero(r, stage, msg) ==
  /\ pc' = [pc EXCEPT ![r] = "rejected"]
  /\ err' = [err EXCEPT ![r] = msg]
  /\ failed' = [failed EXCEPT ![r] = stage]
  /\ IF mode = "cli"
     THEN /\ cliCaught' = cliCaught + 1
          /\ errorLog' = Append(errorLog, [site |-> "cli", text |-> msg])
          /\ exitCalls' = exitCalls + 1
          /\ procState' = "exited"
          /\ exitStatus' = 0
     ELSE UNCHANGED procVars

\* The promise of convertCastToVideo rejects with the message msg, raised by
\* the stage.  Under the CLI the action's catch block logs the message and
\* calls process.exit(1); a host is handed the rejection.
Reject(r, stage, msg) ==
  /\ pc' = [pc EXCEPT ![r] = "rejected"]
  /\ err' = [err EXCEPT ![r] = msg]
  /\ failed' = [failed EXCEPT ![r] = stage]
  /\ IF mode = "cli"
     THEN /\ cliCaught' = cliCaught + 1
          /\ errorLog' = Append(errorLog, [site |-> "cli", text |-> msg])
          /\ exitCalls' = exitCalls + 1
          /\ procState' = "exited"
          /\ exitStatus' = 1
     ELSE UNCHANGED procVars

\* Run r enters the stages, or makes the calls, evs.
Called(r, evs) == calls' = [calls EXCEPT ![r] = @ \o evs]

\* The run moves on to the position next, nothing failing.
Goto(r, next) ==
  /\ pc' = [pc EXCEPT ![r] = next]
  /\ UNCHANGED <<err, failed, procVars>>

\* f with the entries of the settled runs before r set to init: the locals
\* of an invocation that has settled are released when the host starts the
\* next.
Released(f, r, init) ==
  [q \in Runs |-> IF q < r /\ Settled(q) THEN init ELSE f[q]]

\* The CLI action, or the host, calls convertCastToVideo: a host starts a
\* run when the runs before it have settled, or (two at a time) converts an
\* existing cast twice with the default options, the second call made while
\* the first is in progress or over.  Of a settled run the process
\* keeps its browser, its close calls and its pending cleanup calls.
StartRun(r, p, o) ==
  /\ Alive
  /\ pc[r] = "idle"
  /\ CASE mode = "cli" -> r = 1
       [] mode = "host" -> \A q \in 1..(r - 1) : Settled(q)
       [] mode = "par" -> /\ r \in {1, 2}
                          /\ \A q \in 1..(r - 1) : pc[q] # "idle"
                          /\ PathResolve(p) \in ExistingFiles
                          /\ o = CliDefaults
  /\ inputPath' = [Released(inputPath, r, [abs |-> FALSE, text |-> ""]) EXCEPT ![r] = p]
  /\ runOptions' = [Released(runOptions, r, CliDefaults) EXCEPT ![r] = o]
  /\ runParsed' = Released(runParsed, r, NoParsed)
  /\ pc' = [pc EXCEPT ![r] = "validate"]
  /\ err' = Released(err, r, "")
  /\ failed' = Released(failed, r, "")
  /\ assetsRead' = Released(assetsRead, r, FALSE)
  /\ launchCalls' = Released(launchCalls, r, 0)
  /\ viewportArgs' = Released(viewportArgs, r, <<>>)
  /\ recorderArgs' = Released(recorderArgs, r, <<>>)
  /\ recorder' = Released(recorder, r, "none")
  /\ playerReady' = Released(playerReady, r, FALSE)
  /\ playerError' = Released(playerError, r, Unset)
  /\ playback' = Released(playback, r, "idle")
  /\ playerEnded' = Released(playerEnded, r, FALSE)
  /\ calls' = Released(calls, r, <<>>)
  /\ console' = Released(console, r, NoConsole)
  /\ UNCHANGED <<mode, procVars, listeners, nsignals, browser, closeCalls,
                 cleanups>>

\* validateInputFile.
ValidateInput(r) ==
  /\ Alive
  /\ pc[r] = "validate"
  /\ IF PathResolve(inputPath[r]) \in ExistingFiles
     THEN Goto(r, "parse")
     ELSE Reject(r, "validate", InputNotFound(inputPath[r]))
  /\ UNCHANGED <<mode, listeners, nsignals, inputVars, browserVars,
                 callVars, pageVars>>
  /\ Called(r, <<"validate">>)
  /\ UNCHANGED console

\* parseOptions.
ParseRunOptions(r) ==
  /\ Alive
  /\ pc[r] = "parse"
  /\ runParsed' = [runParsed EXCEPT ![r] = parseOptions(runOptions[r])]
  /\ Goto(r, "assets")
  /\ UNCHANGED <<mode, listeners, nsignals, inputPath, runOptions,
                 browserVars, callVars, pageVars>>
  /\ Called(r, <<"parse">>)
  /\ UNCHANGED console

\* getPlayerAssetPaths and loadPlayerAssets: the files are read, or a read
\* throws.
LoadAssets(r) ==
  /\ Alive
  /\ pc[r] = "assets"
  /\ \/ /\ assetsRead' = [assetsRead EXCEPT ![r] = TRUE]
        /\ Goto(r, "compose")
     \/ /\ UNCHANGED assetsRead
        /\ Reject(r, "assets", "ENOENT: asciinema-player")
  /\ UNCHANGED <<mode, listeners, nsignals, inputVars, browserVars,
                 viewportArgs, recorderArgs, recorder, pageVars>>
  /\ Called(r, <<"assets">>)
  /\ UNCHANGED console

\* A plausible slip: the cleanup listeners are registered before setupBrowser
\* is called, while no browser has been launched.
ComposeAndLaunchRegisters(r) ==
  /\ Alive
  /\ pc[r] = "compose"
  /\ launchCalls' = [launchCalls EXCEPT ![r] = @ + 1]
  /\ listeners' = [s \in Signals |-> listeners[s] \cup {r}]
  /\ Goto(r, "launch")
  /\ UNCHANGED <<mode, nsignals, inputVars, browser, closeCalls,
                 cleanups, callVars, pageVars>>
  /\ Called(r, <<"compose", "launch">>)
  /\ UNCHANGED console

\* The cast is read and the page composed; setupBrowser is entered and calls
\* puppeteer.launch.
ComposeAndLaunch(r) ==
  /\ Alive
  /\ pc[r] = "compose"
  /\ launchCalls' = [launchCalls EXCEPT ![r] = @ + 1]
  /\ Goto(r, "launch")
  /\ UNCHANGED <<mode, listeners, nsignals, inputVars, browser, closeCalls,
                 cleanups, callVars, pageVars>>
  /\ Called(r, <<"compose", "launch">>)
  /\ UNCHANGED console

\* puppeteer.launch resolves: the browser runs; browser.newPage is called.
LaunchResolves(r) ==
  /\ Alive
  /\ pc[r] = "launch"
  /\ browser' = [browser EXCEPT ![r] = "open"]
  /\ Goto(r, "newPage")
  /\ UNCHANGED <<mode, listeners, nsignals, inputVars, launchCalls,
                 closeCalls, cleanups, callVars, pageVars>>
  /\ Called(r, <<"newPage">>)
  /\ UNCHANGED console

\* puppeteer.launch rejects: there is no browser.
LaunchRejects(r) ==
  /\ Alive
  /\ pc[r] = "launch"
  /\ Reject(r, "launch", "Failed to launch the browser process")
  /\ UNCHANGED <<mode, listeners, nsignals, inputVars, browserVars,
                 callVars, pageVars>>
  /\ UNCHANGED calls
  /\ UNCHANGED console

\* browser.newPage resolves: page.setViewport is called.
NewPageResolves(r) ==
  /\ Alive
  /\ pc[r] = "newPage"
  /\ browser[r] = "open"
  /\ viewportArgs' = [viewportArgs EXCEPT ![r] = Append(@, Viewport(runParsed[r]))]
  /\ Goto(r, "viewport")
  /\ UNCHANGED <<mode, listeners, nsignals, inputVars, browserVars,
                 assetsRead, recorderArgs, recorder, pageVars>>
  /\ Called(r, <<"setViewport">>)
  /\ UNCHANGED console

\* browser.newPage rejects: setupBrowser rejects, and so does the run.
NewPageRejects(r) ==
  /\ Alive
  /\ pc[r] = "newPage"
  /\ Reject(r, "newPage", "Protocol error (Target.createTarget)")
  /\ UNCHANGED <<mode, listeners, nsignals, inputVars, browserVars,
                 callVars, pageVars>>
  /\ UNCHANGED calls
  /\ UNCHANGED console

\* page.setViewport rejects: setupBrowser rejects, and so does the run.
ViewportRejects(r) ==
  /\ Alive
  /\ pc[r] = "viewport"
  /\ Reject(r, "viewport", "Protocol error (Emulation.setDeviceMetricsOverride)")
  /\ UNCHANGED <<mode, listeners, nsignals, inputVars, browserVars,
                 callVars, pageVars>>
  /\ UNCHANGED calls
  /\ UNCHANGED console

\* A plausible slip: the close sits at the end of the try block, so an
\* error skips it.
FinallyClosesOnSuccessOnly(r, stage, msg) ==
  /\ listeners' = [s \in Signals |-> listeners[s] \ {r}]
  /\ closeCalls' = [closeCalls EXCEPT ![r] = IF msg = "" THEN @ + 1 ELSE @]
  /\ browser' = [browser EXCEPT ![r] =
                   IF msg = "" /\ @ = "open" THEN "closing" ELSE @]
  /\ pc' = [pc EXCEPT ![r] = "closing"]
  /\ err' = [err EXCEPT ![r] = msg]
  /\ failed' = [failed EXCEPT ![r] = stage]
  /\ calls' = [calls EXCEPT ![r] = IF msg = "" THEN Append(@, "close") ELSE @]

\* A plausible slip: only the SIGINT listener is removed.
FinallyKeepsSigterm(r, stage, msg) ==
  /\ listeners' = [s \in Signals |->
                     IF s = "SIGINT" THEN listeners[s] \ {r} ELSE listeners[s]]
  /\ closeCalls' = [closeCalls EXCEPT ![r] = @ + 1]
  /\ browser' = [browser EXCEPT ![r] = IF @ = "open" THEN "closing" ELSE @]
  /\ pc' = [pc EXCEPT ![r] = "closing"]
  /\ err' = [err EXCEPT ![r] = msg]
  /\ failed' = [failed EXCEPT ![r] = stage]
  /\ Called(r, <<"close">>)

\* The finally block of convertCastToVideo, entered with the error msg
\* raised by the stage ("" when the try block completed): both listeners are
\* removed and browser.close is called and awaited.
Finally(r, stage, msg) ==
  /\ listeners' = [s \in Signals |-> listeners[s] \ {r}]
  /\ closeCalls' = [closeCalls EXCEPT ![r] = @ + 1]
  /\ browser' = [browser EXCEPT ![r] = IF @ = "open" THEN "closing" ELSE @]
  /\ pc' = [pc EXCEPT ![r] = "closing"]
  /\ err' = [err EXCEPT ![r] = msg]
  /\ failed' = [failed EXCEPT ![r] = stage]
  /\ Called(r, <<"close">>)

\* page.setViewport resolves: setupBrowser returns; the cleanup listeners are
\* registered; setupPlayer is entered and calls page.setContent.
ViewportResolves(r) ==
  /\ Alive
  /\ pc[r] = "viewport"
  /\ browser[r] = "open"
  /\ listeners' = [s \in Signals |-> listeners[s] \cup {r}]
  /\ Goto(r, "setContent")
  /\ UNCHANGED <<mode, nsignals, inputVars, browserVars, callVars, pageVars>>
  /\ Called(r, <<"setContent">>)
  /\ UNCHANGED console

\* A plausible slip: setupPlayer looks at the error flag as soon as the
\* content is loaded and throws at once when it is set.
SetContentFailsFast(r, ready, error) ==
  /\ Alive
  /\ pc[r] = "setContent"
  /\ browser[r] = "open"
  /\ playerReady' = [playerReady EXCEPT ![r] = ready]
  /\ playerError' = [playerError EXCEPT ![r] = error]
  /\ console' = [console EXCEPT ![r].on = TRUE]
  /\ IF Truthy(error)
     THEN /\ Finally(r, "waitReady", PlayerFailed(error))
          /\ UNCHANGED procVars
     ELSE /\ Goto(r, "waitReady")
          /\ Called(r, <<"waitReady">>)
          /\ UNCHANGED <<listeners, browser, closeCalls>>
  /\ UNCHANGED <<mode, nsignals, inputVars, launchCalls, cleanups, callVars,
                 playback, playerEnded>>

\* page.setContent resolves: the bootstrap script has run and has set the
\* readiness flag, the error flag, both (a throw after readiness) or neither;
\* the console listener is added and the readiness wait begins.
SetContentResolves(r, ready, error) ==
  /\ Alive
  /\ pc[r] = "setContent"
  /\ browser[r] = "open"
  /\ playerReady' = [playerReady EXCEPT ![r] = ready]
  /\ playerError' = [playerError EXCEPT ![r] = error]
  /\ Goto(r, "waitReady")
  /\ UNCHANGED <<mode, listeners, nsignals, inputVars, browserVars, callVars,
                 playback, playerEnded>>
  /\ Called(r, <<"waitReady">>)
  /\ console' = [console EXCEPT ![r].on = TRUE]

SetContentRejects(r) ==
  /\ Alive
  /\ pc[r] = "setContent"
  /\ Finally(r, "setContent", "page.setContent failed")
  /\ UNCHANGED <<mode, procVars, nsignals, inputVars, launchCalls, cleanups,
                 callVars, pageVars>>
  /\ UNCHANGED console

\* In the page, while setupPlayer initializes it (its content loads, or the
\* readiness wait is pending): a script writes to the console.  The message
\* reaches consola.debug when the console listener has been added.
PageConsole(r) ==
  /\ Alive
  /\ browser[r] = "open"
  /\ pc[r] \in {"setContent", "waitReady"}
  /\ console[r].emitted < MaxConsole
  /\ console' = [console EXCEPT
                   ![r].emitted = @ + 1,
                   ![r].forwarded = IF console[r].on THEN @ + 1 ELSE @]
  /\ UNCHANGED <<mode, procVars, listeners, nsignals, pc, inputVars, err,
                 failed, browserVars, callVars, pageVars, calls>>

\* The readiness wait resolves: setupPlayer returns; recordVideo is entered
\* and awaits the import of ffmpeg-static.
WaitReadyResolves(r) ==
  /\ Alive
  /\ pc[r] = "waitReady"
  /\ browser[r] = "open"
  /\ playerReady[r]
  /\ Goto(r, "ffmpeg")
  /\ UNCHANGED <<mode, listeners, nsignals, inputVars, browserVars, callVars,
                 pageVars>>
  /\ Called(r, <<"import">>)
  /\ UNCHANGED console

\* The readiness wait rejects (the timeout, or the page or the browser is
\* gone): the catch block asks the page for window.playerError.
WaitReadyRejects(r) ==
  /\ Alive
  /\ pc[r] = "waitReady"
  /\ pc' = [pc EXCEPT ![r] = "readError"]
  /\ failed' = [failed EXCEPT ![r] = "waitReady"]
  /\ UNCHANGED <<mode, procVars, err, listeners, nsignals, inputVars, browserVars, callVars,
                 pageVars>>
  /\ Called(r, <<"readError">>)
  /\ UNCHANGED console

\* The evaluation resolves with the error flag: it is logged when truthy, and
\* setupPlayer throws.
ReadErrorResolves(r) ==
  /\ Alive
  /\ pc[r] = "readError"
  /\ browser[r] = "open"
  /\ errorLog' = IF Truthy(playerError[r])
                 THEN Append(errorLog, [site |-> "setupPlayer",
                                        text |-> playerError[r].text])
                 ELSE errorLog
  /\ Finally(r, "waitReady", PlayerFailed(playerError[r]))
  /\ UNCHANGED <<mode, procState, exitStatus, exitCalls, cliCaught, nsignals,
                 inputVars, launchCalls, cleanups, callVars, pageVars>>
  /\ UNCHANGED console

\* The evaluation rejects: its error leaves setupPlayer in place of the
\* initialization error.
ReadErrorRejects(r) ==
  /\ Alive
  /\ pc[r] = "readError"
  /\ Finally(r, "readError", "Protocol error (Runtime.callFunctionOn)")
  /\ UNCHANGED <<mode, procVars, nsignals, inputVars, launchCalls, cleanups,
                 callVars, pageVars>>
  /\ UNCHANGED console

\* The import resolves: the recorder is constructed and recorder.start called.
FfmpegResolves(r) ==
  /\ Alive
  /\ pc[r] = "ffmpeg"
  /\ recorderArgs' = [recorderArgs EXCEPT ![r] = Append(@, RecorderConfig(runParsed[r]))]
  /\ recorder' = [recorder EXCEPT ![r] = "starting"]
  /\ Goto(r, "recStart")
  /\ UNCHANGED <<mode, listeners, nsignals, inputVars, browserVars,
                 assetsRead, viewportArgs, pageVars>>
  /\ Called(r, <<"start">>)
  /\ UNCHANGED console

FfmpegRejects(r) ==
  /\ Alive
  /\ pc[r] = "ffmpeg"
  /\ Finally(r, "record", "Cannot find package 'ffmpeg-static'")
  /\ UNCHANGED <<mode, procVars, nsignals, inputVars, launchCalls, cleanups,
                 callVars, pageVars>>
  /\ UNCHANGED console

\* recorder.start resolves: playback is triggered in the page.
RecStartResolves(r) ==
  /\ Alive
  /\ pc[r] = "recStart"
  /\ browser[r] = "open"
  /\ recorder' = [recorder EXCEPT ![r] = "started"]
  /\ Goto(r, "play")
  /\ UNCHANGED <<mode, listeners, nsignals, inputVars, browserVars,
                 assetsRead, viewportArgs, recorderArgs, pageVars>>
  /\ Called(r, <<"started", "play">>)
  /\ UNCHANGED console

RecStartRejects(r) ==
  /\ Alive
  /\ pc[r] = "recStart"
  /\ Finally(r, "record", "recorder.start failed")
  /\ UNCHANGED <<mode, procVars, nsignals, inputVars, launchCalls, cleanups,
                 callVars, pageVars>>
  /\ UNCHANGED console

\* The evaluation of window.player.play() resolves: the player plays and the
\* unbounded wait for the ended flag begins.
PlayResolves(r) ==
  /\ Alive
  /\ pc[r] = "play"
  /\ browser[r] = "open"
  /\ playback' = [playback EXCEPT ![r] = "playing"]
  /\ Goto(r, "waitEnded")
  /\ UNCHANGED <<mode, listeners, nsignals, inputVars, browserVars, callVars,
                 playerReady, playerError, playerEnded>>
  /\ Called(r, <<"waitEnded">>)
  /\ UNCHANGED console

PlayRejects(r) ==
  /\ Alive
  /\ pc[r] = "play"
  /\ Finally(r, "record", "Protocol error (Runtime.callFunctionOn)")
  /\ UNCHANGED <<mode, procVars, nsignals, inputVars, launchCalls, cleanups,
                 callVars, pageVars>>
  /\ UNCHANGED console

\* A plausible slip: the listener sets the flag itself, without the timer.
PlayerEndedEventSetsFlag(r) ==
  /\ Alive
  /\ browser[r] = "open"
  /\ playback[r] = "playing"
  /\ playback' = [playback EXCEPT ![r] = "ended"]
  /\ playerEnded' = [playerEnded EXCEPT ![r] = TRUE]
  /\ UNCHANGED <<mode, procVars, listeners, nsignals, pc, inputVars, err,
                 failed, browserVars, callVars, playerReady, playerError>>
  /\ UNCHANGED calls
  /\ UNCHANGED console

\* In the page: the player emits 'ended' and the listener sets its timer.
PlayerEndedEvent(r) ==
  /\ Alive
  /\ browser[r] = "open"
  /\ playback[r] = "playing"
  /\ playback' = [playback EXCEPT ![r] = "ended"]
  /\ UNCHANGED <<mode, procVars, listeners, nsignals, pc, inputVars, err,
                 failed, browserVars, callVars, playerReady, playerError,
                 playerEnded>>
  /\ UNCHANGED calls
  /\ UNCHANGED console

\* In the page: the one-second timer fires and sets window.playerEnded.
EndedTimer(r) ==
  /\ Alive
  /\ browser[r] = "open"
  /\ playback[r] = "ended"
  /\ ~playerEnded[r]
  /\ playerEnded' = [playerEnded EXCEPT ![r] = TRUE]
  /\ UNCHANGED <<mode, procVars, listeners, nsignals, pc, inputVars, err,
                 failed, browserVars, callVars, playerReady, playerError,
                 playback>>
  /\ UNCHANGED calls
  /\ UNCHANGED console

\* A plausible slip: the wait gives up without the flag, as one with a
\* timeout would.
WaitEndedGivesUp(r) ==
  /\ Alive
  /\ pc[r] = "waitEnded"
  /\ browser[r] = "open"
  /\ recorder' = [recorder EXCEPT ![r] = "stopping"]
  /\ Goto(r, "recStop")
  /\ UNCHANGED <<mode, listeners, nsignals, inputVars, browserVars,
                 assetsRead, viewportArgs, recorderArgs, pageVars>>
  /\ Called(r, <<"ended", "stop">>)
  /\ UNCHANGED console

\* The wait for the ended flag resolves: recorder.stop is called.
WaitEndedResolves(r) ==
  /\ Alive
  /\ pc[r] = "waitEnded"
  /\ browser[r] = "open"
  /\ playerEnded[r]
  /\ recorder' = [recorder EXCEPT ![r] = "stopping"]
  /\ Goto(r, "recStop")
  /\ UNCHANGED <<mode, listeners, nsignals, inputVars, browserVars,
                 assetsRead, viewportArgs, recorderArgs, pageVars>>
  /\ Called(r, <<"ended", "stop">>)
  /\ UNCHANGED console

\* A plausible slip: recordVideo stops the capture in a finally block of its
\* own.
WaitEndedRejectsAndStops(r) ==
  /\ Alive
  /\ pc[r] = "waitEnded"
  /\ recorder' = [recorder EXCEPT ![r] = "stopped"]
  /\ Finally(r, "record", "Waiting failed: target closed")
  /\ UNCHANGED <<mode, procVars, nsignals, inputVars, launchCalls, cleanups,
                 assetsRead, viewportArgs, recorderArgs, pageVars>>
  /\ UNCHANGED console

\* A plausible slip: the wait keeps the default timeout and rejects when it
\* expires.
WaitEndedTimesOut(r) ==
  /\ Alive
  /\ pc[r] = "waitEnded"
  /\ Finally(r, "record", "Waiting failed: 30000ms exceeded")
  /\ UNCHANGED <<mode, procVars, nsignals, inputVars, launchCalls, cleanups,
                 callVars, pageVars>>
  /\ UNCHANGED console

\* The wait rejects: the page or the browser is gone (there is no timeout).
WaitEndedRejects(r) ==
  /\ Alive
  /\ pc[r] = "waitEnded"
  /\ Finally(r, "record", "Waiting failed: target closed")
  /\ UNCHANGED <<mode, procVars, nsignals, inputVars, launchCalls, cleanups,
                 callVars, pageVars>>
  /\ UNCHANGED console

\* recorder.stop resolves: recordVideo returns, the try block completes and
\* the finally block runs.
RecStopResolves(r) ==
  /\ Alive
  /\ pc[r] = "recStop"
  /\ recorder' = [recorder EXCEPT ![r] = "stopped"]
  /\ Finally(r, "", "")
  /\ UNCHANGED <<mode, procVars, nsignals, inputVars, launchCalls, cleanups,
                 assetsRead, viewportArgs, recorderArgs, pageVars>>
  /\ UNCHANGED console

RecStopRejects(r) ==
  /\ Alive
  /\ pc[r] = "recStop"
  /\ Finally(r, "record", "recorder.stop failed")
  /\ UNCHANGED <<mode, procVars, nsignals, inputVars, launchCalls, cleanups,
                 callVars, pageVars>>
  /\ UNCHANGED console

\* The browser.close of the finally block resolves: the run settles, with the
\* error of the try block when there is one.
FinallyCloseResolves(r) ==
  /\ Alive
  /\ pc[r] = "closing"
  /\ browser' = [browser EXCEPT ![r] = "closed"]
  /\ IF err[r] = "" THEN Resolve(r) ELSE Reject(r, failed[r], err[r])
  /\ UNCHANGED <<mode, listeners, nsignals, inputVars, launchCalls,
                 closeCalls, cleanups, callVars, pageVars>>
  /\ UNCHANGED calls
  /\ UNCHANGED console

\* It rejects: its error replaces whatever the try block raised.
FinallyCloseRejects(r) ==
  /\ Alive
  /\ pc[r] = "closing"
  /\ Reject(r, "close", "browser.close failed")
  /\ UNCHANGED <<mode, listeners, nsignals, inputVars, browserVars, callVars,
                 pageVars>>
  /\ UNCHANGED calls
  /\ UNCHANGED console

\* The process receives a signal.  Each cleanup listener registered for it is
\* called and calls browser.close, which it awaits; with no listener the
\* signal has its default disposition and ends the process with the status
\* 128 + the signal's number.
Signal(sig) ==
  /\ Alive
  /\ nsignals < MaxSignals
  /\ nsignals' = nsignals + 1
  /\ IF listeners[sig] = {}
     THEN /\ procState' = "exited"
          /\ exitStatus' = IF sig = "SIGINT" THEN 130 ELSE 143
          /\ UNCHANGED <<closeCalls, browser, cleanups, calls>>
     ELSE /\ closeCalls' = [r \in Runs |->
               IF r \in listeners[sig] THEN closeCalls[r] + 1 ELSE closeCalls[r]]
          /\ browser' = [r \in Runs |->
               IF r \in listeners[sig] /\ browser[r] = "open"
               THEN "closing" ELSE browser[r]]
          /\ cleanups' = [r \in Runs |->
               IF r \in listeners[sig] THEN cleanups[r] + 1 ELSE cleanups[r]]
          /\ calls' = [r \in Runs |->
               IF r \in listeners[sig] THEN Append(calls[r], "close") ELSE calls[r]]
          /\ UNCHANGED <<procState, exitStatus>>
  /\ UNCHANGED <<mode, exitCalls, errorLog, cliCaught, listeners, pc,
                 inputVars, err, failed, launchCalls, callVars, pageVars>>
  /\ UNCHANGED console

\* The browser.close awaited by a cleanup call resolves: process.exit(1).
CleanupCloseResolves(r) ==
  /\ Alive
  /\ cleanups[r] > 0
  /\ browser' = [browser EXCEPT ![r] = "closed"]
  /\ exitCalls' = exitCalls + 1
  /\ procState' = "exited"
  /\ exitStatus' = 1
  /\ UNCHANGED <<mode, errorLog, cliCaught, listeners, nsignals, pc,
                 inputVars, err, failed, launchCalls, closeCalls, cleanups,
                 callVars, pageVars>>
  /\ UNCHANGED calls
  /\ UNCHANGED console

\* It rejects: the listener's promise rejects with nobody to handle it, and
\* the runtime ends the process with the status 1.
CleanupCloseRejects(r) ==
  /\ Alive
  /\ cleanups[r] > 0
  /\ procState' = "exited"
  /\ exitStatus' = 1
  /\ UNCHANGED <<mode, exitCalls, errorLog, cliCaught, listeners, nsignals,
                 pc, inputVars, err, failed, browserVars, callVars, pageVars>>
  /\ UNCHANGED calls
  /\ UNCHANGED console

\* Under the CLI: the action has returned and nothing is pending, so the
\* process ends with the status 0.
NaturalExit ==
  /\ Alive
  /\ mode = "cli"
  /\ pc[1] = "resolved"
  /\ \A r \in Runs : cleanups[r] = 0
  /\ procState' = "exited"
  /\ exitStatus' = 0
  /\ UNCHANGED <<mode, exitCalls, errorLog, cliCaught, listeners, nsignals,
                 pc, inputVars, err, failed, browserVars, callVars, pageVars>>
  /\ UNCHANGED calls
  /\ UNCHANGED console

(***************************************************************************)
(* The specifications.                                                     *)
(***************************************************************************)
vars == <<parseVars, uriVars, htmlVars, runVars>>

\* The pipeline: one run under the CLI action, or the sequential runs of a
\* host process, with signals arriving at any moment.
\* The page composer at rest: one argument list, which no action of these
\* specifications touches.
HtmlIdle ==
  HtmlInit({<<>>}, {DataUriPrefix}, {"asciinema"}, {Num(1)})

Init == RunInit({"cli", "host"}) /\ ParseInit /\ UriInit({<<>>}) /\ HtmlIdle

\* The other specifications' variables stay as they are.
OthersIdle == UNCHANGED <<parseVars, uriVars, htmlVars>>

Next ==
  \/ \E r \in Runs : \E p \in InputPaths : \E o \in RunOptions : StartRun(r, p, o) /\ OthersIdle
  \/ \E r \in Runs : ValidateInput(r) /\ OthersIdle
  \/ \E r \in Runs : ParseRunOptions(r) /\ OthersIdle
  \/ \E r \in Runs : LoadAssets(r) /\ OthersIdle
  \/ \E r \in Runs : ComposeAndLaunch(r) /\ OthersIdle
  \/ \E r \in Runs : LaunchResolves(r) /\ OthersIdle
  \/ \E r \in Runs : LaunchRejects(r) /\ OthersIdle
  \/ \E r \in Runs : NewPageResolves(r) /\ OthersIdle
  \/ \E r \in Runs : NewPageRejects(r) /\ OthersIdle
  \/ \E r \in Runs : ViewportResolves(r) /\ OthersIdle
  \/ \E r \in Runs : ViewportRejects(r) /\ OthersIdle
  \/ \E r \in Runs : \E ready \in BOOLEAN : \E error \in PlayerErrors : SetContentResolves(r, ready, error) /\ OthersIdle
  \/ \E r \in Runs : SetContentRejects(r) /\ OthersIdle
  \/ \E r \in Runs : WaitReadyResolves(r) /\ OthersIdle
  \/ \E r \in Runs : WaitReadyRejects(r) /\ OthersIdle
  \/ \E r \in Runs : ReadErrorResolves(r) /\ OthersIdle
  \/ \E r \in Runs : ReadErrorRejects(r) /\ OthersIdle
  \/ \E r \in Runs : FfmpegResolves(r) /\ OthersIdle
  \/ \E r \in Runs : FfmpegRejects(r) /\ OthersIdle
  \/ \E r \in Runs : RecStartResolves(r) /\ OthersIdle
  \/ \E r \in Runs : RecStartRejects(r) /\ OthersIdle
  \/ \E r \in Runs : PlayResolves(r) /\ OthersIdle
  \/ \E r \in Runs : PlayRejects(r) /\ OthersIdle
  \/ \E r \in Runs : PlayerEndedEvent(r) /\ OthersIdle
  \/ \E r \in Runs : EndedTimer(r) /\ OthersIdle
  \/ \E r \in Runs : WaitEndedResolves(r) /\ OthersIdle
  \/ \E r \in Runs : WaitEndedRejects(r) /\ OthersIdle
  \/ \E r \in Runs : RecStopResolves(r) /\ OthersIdle
  \/ \E r \in Runs : RecStopRejects(r) /\ OthersIdle
  \/ \E r \in Runs : FinallyCloseResolves(r) /\ OthersIdle
  \/ \E r \in Runs : FinallyCloseRejects(r) /\ OthersIdle
  \/ \E r \in Runs : CleanupCloseResolves(r) /\ OthersIdle
  \/ \E r \in Runs : CleanupCloseRejects(r) /\ OthersIdle
  \/ \E sig \in Signals : Signal(sig) /\ OthersIdle
  \/ NaturalExit /\ OthersIdle

Spec == Init /\ [][Next]_vars

\* The CLI alone, with the steps that the runtime is bound to take once
\* they can be taken: a wait whose condition holds in a live page resolves,
\* recorder.stop and browser.close complete unless they fail; the readiness
\* wait, which has a timeout, settles one way or the other, and so does the
\* evaluation that follows its failure.
InitCli ==
  RunInit({"cli"}) /\ ParseInit /\ UriInit({<<>>}) /\ HtmlIdle

\* A plausible slip: the readiness wait is given no timeout either.
FairnessWithoutTimeout ==
  \A r \in Runs :
    /\ WF_vars(WaitReadyResolves(r) /\ OthersIdle)
    /\ WF_vars((ReadErrorResolves(r) \/ ReadErrorRejects(r)) /\ OthersIdle)
    /\ WF_vars(WaitEndedResolves(r) /\ OthersIdle)
    /\ WF_vars(RecStopResolves(r) /\ OthersIdle)
    /\ WF_vars(FinallyCloseResolves(r) /\ OthersIdle)

Fairness ==
  \A r \in Runs :
    /\ WF_vars((WaitReadyResolves(r) \/ WaitReadyRejects(r)) /\ OthersIdle)
    /\ WF_vars((ReadErrorResolves(r) \/ ReadErrorRejects(r)) /\ OthersIdle)
    /\ WF_vars(WaitEndedResolves(r) /\ OthersIdle)
    /\ WF_vars(RecStopResolves(r) /\ OthersIdle)
    /\ WF_vars(FinallyCloseResolves(r) /\ OthersIdle)

SpecCliFair == InitCli /\ [][Next]_vars /\ Fairness

\* The CLI with a page that writes to its console during initialization.
NextConsole ==
  \/ Next
  \/ \E r \in Runs : PageConsole(r) /\ OthersIdle

SpecConsole == InitCli /\ [][NextConsole]_vars

\* The CLI, and a host that has two conversions in progress at a time.
InitPar ==
  RunInit({"cli", "par"}) /\ ParseInit /\ UriInit({<<>>}) /\ HtmlIdle

SpecPar == InitPar /\ [][Next]_vars

\* The option normalizer on every command line of the model.
InitParse == ParseInit /\ UriInit({<<>>}) /\ RunInit({"cli"}) /\ HtmlIdle

NextParse ==
  \/ \E f \in DOMAIN CliDefaults : \E v \in FlagValues(f, nflags) :
       CliFlag(f, v) /\ UNCHANGED <<uriVars, htmlVars, runVars>>
  \/ ParseStep /\ UNCHANGED <<uriVars, htmlVars, runVars>>

SpecParse == InitParse /\ [][NextParse]_vars

\* The data URI of every cast content of the model.
InitUri == ParseInit /\ UriInit(CastTexts) /\ RunInit({"cli"}) /\ HtmlIdle

NextUri ==
  \/ CreateUriStep /\ UNCHANGED <<parseVars, htmlVars, runVars>>
  \/ DecodeUriStep /\ UNCHANGED <<parseVars, htmlVars, runVars>>

SpecUri == InitUri /\ [][NextUri]_vars

\* The page composer on every argument list of the model.
InitHtml ==
  /\ ParseInit /\ UriInit({<<>>}) /\ RunInit({"cli"})
  /\ HtmlInit(AssetTexts, HtmlUris, HtmlThemes, HtmlSpeeds)

NextHtml == GenerateHtmlStep /\ UNCHANGED <<parseVars, uriVars, runVars>>

SpecHtml == InitHtml /\ [][NextHtml]_vars

(***************************************************************************)
(* Claims about the pipeline.                                              *)
(***************************************************************************)
\* The stages of convertCastToVideo that run inside its try block.
TryStages == {"setContent", "waitReady", "readError", "record"}

CliLogs == SelectSeq(errorLog, LAMBDA e : e.site = "cli")

\* C1: when the browser was launched, setupBrowser returned and no signal
\* arrived, a settled run has called browser.close exactly once, whether it
\* succeeded, setupPlayer failed or recordVideo failed.
C1_ClosedOnceOnEveryExitPath ==
  \A r \in Runs :
    (Held(r) /\ Settled(r) /\ nsignals = 0
       /\ (pc[r] = "resolved" \/ failed[r] \in TryStages)) =>
      closeCalls[r] = 1 /\ browser[r] = "closed"

\* C1 witness: the second run of a host has been rejected by a failure of
\* recordVideo, no signal having arrived, and has closed its browser once.
C1_Witness ==
  /\ mode = "host"
  /\ nsignals = 0
  /\ pc[2] = "rejected"
  /\ failed[2] = "record"
  /\ closeCalls[2] = 1
  /\ browser[2] = "closed"

\* C2: when a signal reaches the cleanup listener while recordVideo is in
\* progress, browser.close is called exactly once in total, whatever the
\* interleaving, and the process exits with the status 1.
C2_InterruptClosesExactlyOnce ==
  \A r \in Runs :
    (cleanups[r] > 0 /\ recorder[r] # "none") =>
      /\ closeCalls[r] = 1
      /\ procState = "exited" => exitStatus = 1

\* C3: the browser of every settled run that launched one has been closed,
\* also when the failure was inside setupBrowser.
C3_EveryLaunchedBrowserClosed ==
  \A r \in Runs :
    (Settled(r) /\ browser[r] # "none") =>
      closeCalls[r] >= 1 /\ browser[r] # "open"

\* The absolute path of each input of the model that does not exist.
MissingInputs ==
  {<<"missing.cast", "/work/missing.cast">>,
   <<"/tmp/gone.cast", "/tmp/gone.cast">>}

\* C4: a run whose input does not exist fails at once with a message that
\* names the resolved absolute path, having launched no browser, read no
\* asset and registered no listener; under the CLI the process has exited
\* with the status 1.
C4_MissingInputFailsFirst ==
  \A r \in Runs : \A m \in MissingInputs :
    (Held(r) /\ inputPath[r].text = m[1] /\ pc[r] # "validate") =>
      /\ pc[r] = "rejected"
      /\ failed[r] = "validate"
      /\ err[r] = "Input file not found: " \o m[2]
      /\ launchCalls[r] = 0
      /\ browser[r] = "none"
      /\ ~assetsRead[r]
      /\ viewportArgs[r] = <<>>
      /\ \A s \in Signals : r \notin listeners[s]
      /\ mode = "cli" =>
           /\ procState = "exited"
           /\ exitStatus = 1
           /\ exitCalls = 1

\* C4 witness: under the CLI a relative path that does not exist has been
\* rejected with its absolute form and the process has exited with 1.
C4_Witness ==
  /\ mode = "cli"
  /\ inputPath[1] = [abs |-> FALSE, text |-> "missing.cast"]
  /\ pc[1] = "rejected"
  /\ err[1] = "Input file not found: /work/missing.cast"
  /\ procState = "exited"
  /\ exitStatus = 1

ExpectedPlayerMessage(flag) ==
  IF flag = Text("boom") THEN "Player failed to initialize: boom"
  ELSE "Player failed to initialize"

\* The readiness wait of run r has failed.
WaitFailed(r) == failed[r] \in {"waitReady", "readError"}

\* setupPlayer has thrown in run r.
PlayerThrew(r) == pc[r] \in {"closing", "rejected"}

\* C6 (as stated): after a failed readiness wait setupPlayer has thrown the
\* bare message when the page's error flag is unset or falsy, and the
\* message followed by the flag's text otherwise; it has not resolved.
C6_PlayerFailureMessage ==
  \A r \in Runs :
    (Held(r) /\ WaitFailed(r)) =>
      /\ pc[r] = "readError" \/ PlayerThrew(r)
      /\ recorder[r] = "none"
      /\ pc[r] = "closing" => err[r] = ExpectedPlayerMessage(playerError[r])

\* C6 (as amended): the same, provided the evaluation that reads the error
\* flag resolves; when that evaluation rejects, setupPlayer throws the
\* evaluation's error instead.  Either way it does not resolve, and (seen in
\* the first run of a process, whose log starts empty) a truthy flag is
\* logged exactly when the evaluation resolved.
C6_PlayerFailureMessageOrEvaluationError ==
  \A r \in Runs :
    (Held(r) /\ WaitFailed(r)) =>
      /\ pc[r] = "readError" \/ PlayerThrew(r)
      /\ recorder[r] = "none"
      /\ (pc[r] = "closing" /\ failed[r] = "waitReady") =>
           err[r] = ExpectedPlayerMessage(playerError[r])
      /\ (pc[r] = "closing" /\ failed[r] = "readError") =>
           err[r] = "Protocol error (Runtime.callFunctionOn)"
      /\ (r = 1 /\ PlayerThrew(r)) =>
           (\E i \in 1..Len(errorLog) : errorLog[i].site = "setupPlayer")
             <=> (failed[r] = "waitReady" /\ playerError[r] = Text("boom"))

\* C6 witness: the wait failed on a page whose error flag holds "boom" and
\* setupPlayer has thrown the message with that text.
C6_Witness ==
  /\ failed[1] = "waitReady"
  /\ pc[1] = "closing"
  /\ playerError[1] = Text("boom")
  /\ err[1] = "Player failed to initialize: boom"

\* C7: a settled run has neither of its listeners registered, a listener is
\* registered only from the return of setupBrowser to the finally block, and
\* when every run started has settled no listener is left.
C7_ListenersRemoved ==
  /\ \A r \in Runs : \A s \in Signals :
       /\ Settled(r) => r \notin listeners[s]
       /\ r \in listeners[s] =>
            pc[r] \in {"setContent", "waitReady", "readError", "ffmpeg",
                       "recStart", "play", "waitEnded", "recStop"}
  /\ (\A r \in Runs : pc[r] = "idle" \/ Settled(r)) =>
       \A s \in Signals : listeners[s] = {}

\* C7 witness: two runs of a host, the first failed in its try block and the
\* second successful, both had their browsers closed, and no listener is
\* left.
C7_Witness ==
  /\ mode = "host"
  /\ pc[1] = "rejected"
  /\ closeCalls[1] = 1
  /\ pc[2] = "resolved"
  /\ closeCalls[2] = 1
  /\ \A s \in Signals : listeners[s] = {}

\* C8: the viewport given to the page holds the parsed width, height and
\* scale, and the recorder is built with 60 frames a second and the parsed
\* width and height: 800 by 600 (and a scale factor of 2) with the defaults.
C8_OptionsReachCollaborators ==
  \A r \in Runs :
    Held(r) =>
      /\ (pc[r] \notin {"validate", "parse"} /\ failed[r] # "validate") =>
           runParsed[r] = parseOptions(runOptions[r])
      /\ viewportArgs[r] # <<>> =>
           /\ Len(viewportArgs[r]) = 1
           /\ viewportArgs[r][1].width = runParsed[r].width
           /\ viewportArgs[r][1].height = runParsed[r].height
           /\ viewportArgs[r][1].deviceScaleFactor = runParsed[r].scale
           /\ runOptions[r] = CliDefaults =>
                viewportArgs[r][1] =
                  [width |-> Num(800), height |-> Num(600),
                   deviceScaleFactor |-> Num(2)]
      /\ recorderArgs[r] # <<>> =>
           /\ Len(recorderArgs[r]) = 1
           /\ recorderArgs[r][1].fps = 60
           /\ recorderArgs[r][1].width = runParsed[r].width
           /\ recorderArgs[r][1].height = runParsed[r].height
           /\ runOptions[r] = CliDefaults =>
                recorderArgs[r][1] =
                  [fps |-> 60, width |-> Num(800), height |-> Num(600)]

\* C8 witness: a run with the default options has set the viewport and
\* built the recorder, and has resolved.
C8_Witness ==
  /\ runOptions[1] = CliDefaults
  /\ pc[1] = "resolved"
  /\ viewportArgs[1] = <<[width |-> Num(800), height |-> Num(600),
                          deviceScaleFactor |-> Num(2)]>>
  /\ recorderArgs[1] = <<[fps |-> 60, width |-> Num(800), height |-> Num(600)]>>

(***************************************************************************)
(* Vocabulary of the claims about the option normalizer.                   *)
(***************************************************************************)
AllDigits(s) == \A i \in 1..Len(s) : s[i] \in Digits

\* An integer numeral: an optional sign, then one digit or more.
IsIntLiteral(s) == Unsigned(s) # <<>> /\ AllDigits(Unsigned(s))

\* The digits of a text, the point left out.
RECURSIVE DigitsOf(_)
DigitsOf(s) ==
  IF s = <<>> THEN <<>>
  ELSE IF Head(s) \in Digits THEN <<Head(s)>> \o DigitsOf(Tail(s))
  ELSE DigitsOf(Tail(s))

PointsOf(s) == {i \in 1..Len(s) : s[i] = "."}

\* A decimal numeral: an optional sign, then digits with at most one point
\* among them (before, between or after), one digit at least.
IsDecLiteral(s) ==
  LET u == Unsigned(s)
  IN  /\ Cardinality(PointsOf(u)) <= 1
      /\ \A i \in 1..Len(u) : u[i] \in Digits \cup {"."}
      /\ DigitsOf(u) # <<>>

\* The value of a digit sequence as the sum of its digits by position.
RECURSIVE PositionalSum(_, _)
PositionalSum(ds, i) ==
  IF i > Len(ds) THEN 0
  ELSE DigitVal(ds[i]) * Pow10(Len(ds) - i) + PositionalSum(ds, i + 1)

IntLiteralValue(s) == Num(Sign(s) * PositionalSum(Unsigned(s), 1))

DecLiteralValue(s) ==
  LET u  == Unsigned(s)
      fr == IF PointsOf(u) = {} THEN 0
            ELSE Len(u) - (CHOOSE i \in PointsOf(u) : TRUE)
  IN  Norm(Sign(s) * PositionalSum(DigitsOf(u), 1), Pow10(fr))

Prefix(s, k) == SubSeq(s, 1, k)

\* The longest prefix of s that is an integer (decimal) numeral, 0 if none.
IntPrefixLen(s) ==
  LET ks == {k \in 1..Len(s) : IsIntLiteral(Prefix(s, k))}
  IN  IF ks = {} THEN 0 ELSE CHOOSE k \in ks : \A j \in ks : j <= k

DecPrefixLen(s) ==
  LET ks == {k \in 1..Len(s) : IsDecLiteral(Prefix(s, k))}
  IN  IF ks = {} THEN 0 ELSE CHOOSE k \in ks : \A j \in ks : j <= k

\* What the field f of the result is when only the flag f is given.
AloneParsed(f) == parseOptions([CliDefaults EXCEPT ![f] = options[f]])[f]

\* C9 (as amended): parseOptions maps each field independently of the
\* others; output and theme pass through; width and height are the value
\* of the longest leading integer numeral of their text, speed and scale
\* the value of the longest leading decimal numeral (so a well-formed
\* numeral gives its own value); the result is NaN exactly when the text
\* has no leading numeral, and a numeral followed by other characters gives
\* the numeral's value, not NaN.
C9_ParseOptionsPrefixRule ==
  parsePc = "parsed" =>
    /\ parsed.output = options.output
    /\ parsed.theme = options.theme
    /\ \A f \in DOMAIN CliDefaults : parsed[f] = AloneParsed(f)
    /\ \A f \in {"width", "height"} :
         /\ IsIntLiteral(options[f]) => parsed[f] = IntLiteralValue(options[f])
         /\ parsed[f].nan <=> IntPrefixLen(options[f]) = 0
         /\ IntPrefixLen(options[f]) > 0 =>
              parsed[f] = IntLiteralValue(Prefix(options[f], IntPrefixLen(options[f])))
    /\ \A f \in {"speed", "scale"} :
         /\ IsDecLiteral(options[f]) => parsed[f] = DecLiteralValue(options[f])
         /\ parsed[f].nan <=> DecPrefixLen(options[f]) = 0
         /\ DecPrefixLen(options[f]) > 0 =>
              parsed[f] = DecLiteralValue(Prefix(options[f], DecPrefixLen(options[f])))

\* C9 witness: a width that is a numeral followed by a letter has been
\* parsed to the numeral, the other fields keeping their default values.
C9_Witness ==
  /\ parsePc = "parsed"
  /\ options.width = <<"1", "x">>
  /\ parsed.width = Num(1)
  /\ parsed.height = Num(600)
  /\ parsed.speed = Num(1)

\* C9 (as stated): a well-formed numeral gives its value and every text
\* that is not a well-formed numeral gives NaN, for that field only.
C9_NonNumericGivesNaN ==
  parsePc = "parsed" =>
    /\ parsed.output = options.output
    /\ parsed.theme = options.theme
    /\ \A f \in DOMAIN CliDefaults : parsed[f] = AloneParsed(f)
    /\ \A f \in {"width", "height"} :
         /\ IsIntLiteral(options[f]) => parsed[f] = IntLiteralValue(options[f])
         /\ ~IsDecLiteral(options[f]) => parsed[f].nan
    /\ \A f \in {"speed", "scale"} :
         /\ IsDecLiteral(options[f]) => parsed[f] = DecLiteralValue(options[f])
         /\ ~IsDecLiteral(options[f]) => parsed[f].nan

(***************************************************************************)
(* Vocabulary of the claims about the data URI.                            *)
(***************************************************************************)
\* A base64 text: groups of four characters of the alphabet, the last group
\* ending in at most two "=".
IsBase64Text(c) ==
  /\ Len(c) % 4 = 0
  /\ \A i \in 1..Len(c) :
       \/ IsB64Char(c[i])
       \/ c[i] = "=" /\ i >= Len(c) - 1 /\ (i = Len(c) \/ c[Len(c)] = "=")

\* C10: the URI is the fixed prefix followed by a base64 text, and removing
\* the prefix and decoding the rest gives back the cast content.
C10_DataUriRoundTrip ==
  /\ uriPc # "read" =>
       /\ StartsWith(dataUri, DataUriPrefix)
       /\ IsBase64Text(Drop(dataUri, Len(DataUriPrefix)))
       /\ Base64Decode(Drop(dataUri, Len(DataUriPrefix))) = Utf8Encode(castContent)
  /\ uriPc = "decoded" => decoded = castContent

\* C10 witness: a content with a three-byte character and a surrogate pair
\* has been encoded (with padding) and decoded back.
C10_Witness ==
  /\ uriPc = "decoded"
  /\ castContent = <<8364, 55357, 56832>>
  /\ dataUri[Len(dataUri)] = "="
  /\ decoded = castContent

(***************************************************************************)
(* Claims about the order of the pipeline's steps.                         *)
(***************************************************************************)
\* The place of the first ev among the calls of run r, 0 when there is none.
Pos(r, ev) ==
  LET at == {i \in 1..Len(calls[r]) : calls[r][i] = ev}
  IN  IF at = {} THEN 0 ELSE CHOOSE i \in at : \A j \in at : i <= j

\* How often run r made the call ev.
Times(r, ev) == Cardinality({i \in 1..Len(calls[r]) : calls[r][i] = ev})

\* In run r, ev happened and a happened before it.
After(r, a, ev) == Pos(r, ev) > 0 => (0 < Pos(r, a) /\ Pos(r, a) < Pos(r, ev))

\* C12: in every run of recordVideo capture start completes, then playback
\* is triggered, then the ended flag is observed true, then capture stop is
\* called; playback is never triggered (nor does the player play) before
\* capture has started, and capture is never stopped before the flag has
\* been observed true.
C12_RecordingOrder ==
  \A r \in Runs :
    Held(r) =>
      /\ After(r, "start", "started")
      /\ After(r, "started", "play")
      /\ After(r, "play", "ended")
      /\ After(r, "ended", "stop")
      /\ Pos(r, "play") > 0 => recorder[r] \in {"started", "stopping", "stopped"}
      /\ playback[r] # "idle" => Pos(r, "play") > 0
      /\ Pos(r, "ended") > 0 => playerEnded[r] /\ playback[r] = "ended"
      /\ Pos(r, "stop") > 0 <=> recorder[r] \in {"stopping", "stopped"}
      /\ recorder[r] \in {"stopping", "stopped"} => playerEnded[r]

\* C12 witness: a run has resolved with its capture started, playback
\* triggered, the flag observed and the capture stopped, in that order.
C12_Witness ==
  /\ pc[1] = "resolved"
  /\ recorder[1] = "stopped"
  /\ 0 < Pos(1, "started")
  /\ Pos(1, "started") < Pos(1, "play")
  /\ Pos(1, "play") < Pos(1, "ended")
  /\ Pos(1, "ended") < Pos(1, "stop")

\* Run r leaves the wait for the ended flag in this step.
LeavesWaitEnded(r) == pc[r] = "waitEnded" /\ pc'[r] # "waitEnded"

\* C13: the recording wait has no timeout.  While the ended flag is false
\* the run leaves the wait only because the wait fails with its target gone,
\* never by resolving and never by a timeout; with no signal delivered the
\* waiting run is unsettled, its browser open and both its listeners
\* registered.  Conversely, once the flag is true the run resolves, unless a
\* call fails or a signal arrives.
C13_UnboundedRecordingWait ==
  /\ [][\A r \in Runs :
          (LeavesWaitEnded(r) /\ ~playerEnded[r]) =>
            /\ pc'[r] = "closing"
            /\ failed'[r] = "record"
            /\ err'[r] = "Waiting failed: target closed"]_vars
  /\ [](\A r \in Runs :
          (pc[r] = "waitEnded" /\ nsignals = 0) =>
            /\ browser[r] = "open"
            /\ closeCalls[r] = 0
            /\ \A s \in Signals : r \in listeners[s])
  /\ \A r \in Runs :
       (pc[r] = "waitEnded" /\ playerEnded[r])
         ~> (pc[r] = "resolved" \/ failed[r] # "" \/ nsignals > 0)

\* C13 witness: the player has not ended; the run waits with its browser
\* open, both listeners registered and no signal delivered.
C13_Witness ==
  /\ pc[1] = "waitEnded"
  /\ playback[1] = "playing"
  /\ ~playerEnded[1]
  /\ nsignals = 0
  /\ browser[1] = "open"
  /\ 1 \in listeners["SIGINT"] /\ 1 \in listeners["SIGTERM"]

\* The errors that the steps other than the readiness wait fail with: none
\* of them is the expiry of a timeout.
FailureMessages ==
  {"Input file not found: /work/missing.cast",
   "Input file not found: /tmp/gone.cast",
   "ENOENT: asciinema-player", "Failed to launch the browser process",
   "Protocol error (Target.createTarget)",
   "Protocol error (Emulation.setDeviceMetricsOverride)",
   "page.setContent failed", "Protocol error (Runtime.callFunctionOn)",
   "Cannot find package 'ffmpeg-static'", "recorder.start failed",
   "Waiting failed: target closed", "recorder.stop failed",
   "browser.close failed"}

\* setupPlayer has settled in run r, or the process is gone.
PlayerSettled(r) == pc[r] \notin {"setContent", "waitReady", "readError"} \/ ~Alive

HeldNext(r) == pc'[r] # "idle" /\ \A q \in Runs : q > r => pc'[q] = "idle"

\* C15: the page's ended flag is false from readiness until the player has
\* emitted 'ended' and the one-second timer has fired after that; the flag
\* never turns true in the step of the 'ended' event or before it, and once
\* true it is not reset.
C15_EndedFlagFollowsEventAfterDelay ==
  /\ [](\A r \in Runs : playerEnded[r] => playback[r] = "ended")
  /\ [][\A r \in Runs :
          /\ (~playerEnded[r] /\ playerEnded'[r]) =>
               playback[r] = "ended" /\ playback'[r] = "ended"
          /\ (playback[r] # "ended" /\ playback'[r] = "ended") =>
               ~playerEnded'[r]
          /\ (playerEnded[r] /\ HeldNext(r)) => playerEnded'[r]]_vars

\* C15 witness: the player has emitted 'ended' and the timer has not fired
\* yet: the flag is still false and the run still waits.
C15_Witness ==
  /\ pc[1] = "waitEnded"
  /\ playerReady[1]
  /\ playback[1] = "ended"
  /\ ~playerEnded[1]

\* The stages and the external calls of one invocation, in the order of the
\* source; "readError" (the evaluation in setupPlayer's catch block) stands
\* outside it.
StageOrder ==
  <<"validate", "parse", "assets", "compose", "launch", "newPage",
    "setViewport", "setContent", "waitReady", "import", "start", "started",
    "play", "waitEnded", "ended", "stop">>

\* The calls of run r follow the order of the source, each made at most
\* once and none before the one before it.
InStageOrder(r) ==
  /\ \A k \in 1..Len(StageOrder) : Times(r, StageOrder[k]) <= 1
  /\ \A k \in 2..Len(StageOrder) : After(r, StageOrder[k - 1], StageOrder[k])
  /\ Times(r, "readError") <= 1
  /\ After(r, "waitReady", "readError")
  /\ After(r, "setContent", "close")

\* C16: within one invocation the stages run in the fixed order, every stage
\* and every external call (launch, load content, start capture, trigger
\* playback, stop capture, close browser) at most once, each stage after the
\* one before it has completed.
C16_StagesInOrderAtMostOnce ==
  \A r \in Runs :
    Held(r) =>
      /\ InStageOrder(r)
      /\ Times(r, "close") <= 1
      /\ launchCalls[r] <= 1

\* Without the close calls the order holds in every run.
StagesInOrder == \A r \in Runs : Held(r) => InStageOrder(r) /\ launchCalls[r] <= 1

\* C17: every console message the page emits during initialization, from
\* the start of the content load to the settling of the readiness wait, has
\* been forwarded to the debug log; none emitted during the load is lost.
C17_ConsoleForwardedFromLoad ==
  \A r \in Runs : console[r].forwarded = console[r].emitted

\* The positions at which a run has its cleanup listeners registered.
Registered ==
  {"setContent", "waitReady", "readError", "ffmpeg", "recStart", "play",
   "waitEnded", "recStop"}

\* C18: two conversions in progress at a time share no state: no run loses
\* its listeners or its browser to the completion of the other, and an
\* interrupt does not end the process before every browser that a run has
\* launched is closed.
C18_ConcurrentRunsIndependent ==
  (mode = "par" /\ pc[1] # "idle" /\ pc[2] # "idle") =>
    /\ \A r \in Runs :
         pc[r] \in Registered =>
           /\ \A s \in Signals : r \in listeners[s]
           /\ nsignals = 0 => browser[r] = "open" /\ closeCalls[r] = 0
    /\ (procState = "exited" /\ nsignals > 0) =>
         \A r \in Runs : browser[r] \in {"none", "closed"}

\* The interrupt that the cleanup listeners of two runs handle ends the
\* process at the first close that completes: the state in which the
\* process has exited through process.exit(1) while the browser of the other
\* run, whose cleanup was called too, is not closed yet.
ExitBeforeOtherBrowserClosed ==
  /\ mode = "par"
  /\ procState = "exited"
  /\ exitCalls = 1
  /\ cleanups[1] > 0 /\ cleanups[2] > 0
  /\ browser[1] = "closed"
  /\ browser[2] = "closing"

\* Capture has started in run r and recorder.stop has not been called.
CaptureOpen(r) == Pos(r, "started") > 0 /\ Pos(r, "stop") = 0

\* C19: recorder.stop is called exactly when capture started, playback was
\* triggered and the ended wait succeeded.  When the playback trigger or the
\* ended wait fails after capture has started, recordVideo passes the
\* failure on with the capture not stopped, and the finally block closes the
\* browser under the capture session.
C19_StopOnlyAfterEndedWait ==
  \A r \in Runs :
    Held(r) =>
      /\ Pos(r, "stop") > 0 <=> recorder[r] \in {"stopping", "stopped"}
      /\ Pos(r, "stop") > 0 <=>
           (Pos(r, "started") > 0 /\ Pos(r, "play") > 0 /\ Pos(r, "ended") > 0)
      /\ (CaptureOpen(r) /\ pc[r] \in {"closing", "rejected"}) =>
           /\ recorder[r] = "started"
           /\ failed[r] \in {"record", "close"}
           /\ Times(r, "close") >= 1
           /\ browser[r] # "open"
           /\ failed[r] = "record" =>
                err[r] \in {"Protocol error (Runtime.callFunctionOn)",
                            "Waiting failed: target closed"}
      /\ ~(CaptureOpen(r) /\ pc[r] = "resolved")

\* C19 witness: the ended wait failed after capture had started; the run was
\* rejected, its browser closed, and the capture was never stopped.
C19_Witness ==
  /\ pc[1] = "rejected"
  /\ failed[1] = "record"
  /\ err[1] = "Waiting failed: target closed"
  /\ recorder[1] = "started"
  /\ Pos(1, "stop") = 0
  /\ browser[1] = "closed"
  /\ nsignals = 0

\* Run r leaves the readiness wait in this step.
LeavesWaitReady(r) == pc[r] = "waitReady" /\ pc'[r] # "waitReady"

\* C20: setupPlayer never fails fast.  The page's error flag is read, and
\* logged, only after the readiness wait has rejected: a run leaves the wait
\* either resolved, with the readiness flag set, or by the wait's rejection,
\* whatever the error flag holds.  Readiness alone decides: a run whose page
\* is ready goes on to record even with the error flag set.
C20_NoFailFastReadinessDecides ==
  /\ [][\A r \in Runs :
          LeavesWaitReady(r) =>
            \/ pc'[r] = "ffmpeg" /\ playerReady[r]
            \/ pc'[r] = "readError" /\ failed'[r] = "waitReady"]_vars
  /\ [](\A r \in Runs :
          Held(r) =>
            /\ After(r, "waitReady", "readError")
            /\ failed[r] \in {"waitReady", "readError"} =>
                 Pos(r, "readError") > 0 /\ Pos(r, "import") = 0
            /\ Pos(r, "import") > 0 =>
                 playerReady[r] /\ Pos(r, "readError") = 0
            /\ (r = 1 /\ \E i \in 1..Len(errorLog) : errorLog[i].site = "setupPlayer")
                 => Pos(r, "readError") > 0)

\* C20 witness: the bootstrap script set readiness and then threw, so the
\* error flag is set as well; setupPlayer resolved and the run went on to
\* record and resolved.
C20_Witness ==
  /\ pc[1] = "resolved"
  /\ playerReady[1]
  /\ playerError[1] = Text("boom")
  /\ Pos(1, "import") > 0
  /\ Pos(1, "readError") = 0
  /\ errorLog = <<>>

\* The run has not yet had setupBrowser return its browser.
LaunchIncomplete(r) == browser[r] = "none" \/ pc[r] \in {"launch", "newPage", "viewport"}

\* The finally block of the run has removed its listeners and called the final
\* browser.close.
Deregistered(r) == pc[r] \in {"closing", "resolved", "rejected"}

\* C21: the cleanup listeners of a run are registered, both together, only
\* from the return of setupBrowser, with the browser launched, to the finally
\* block, whose browser.close has then not been called; and the cleanup of a
\* run is invoked only by a signal that arrives while they are registered,
\* never by one that arrives before the launch is complete or after the
\* finally block has removed them.
C21_CleanupOnlyWhileRegistered ==
  /\ [](\A r \in Runs :
          /\ (r \in listeners["SIGINT"]) <=> (r \in listeners["SIGTERM"])
          /\ (\E s \in Signals : r \in listeners[s]) =>
                /\ launchCalls[r] = 1
                /\ browser[r] # "none"
                /\ ~LaunchIncomplete(r)
                /\ ~Deregistered(r)
                /\ closeCalls[r] = cleanups[r]
          /\ (LaunchIncomplete(r) \/ Deregistered(r)) =>
                \A s \in Signals : r \notin listeners[s])
  /\ [][\A r \in Runs :
          /\ cleanups'[r] # cleanups[r] =>
                /\ nsignals' = nsignals + 1
                /\ \A s \in Signals : r \in listeners[s]
                /\ ~LaunchIncomplete(r)
                /\ ~Deregistered(r)
                /\ cleanups'[r] = cleanups[r] + 1
          /\ (nsignals' # nsignals /\ (LaunchIncomplete(r) \/ Deregistered(r))) =>
                /\ cleanups'[r] = cleanups[r]
                /\ closeCalls'[r] = closeCalls[r]
                /\ browser'[r] = browser[r]]_vars

\* C21 witness: a signal arrived while the finally block awaited its
\* browser.close, after the listeners were removed: no cleanup was invoked,
\* the browser has its one close call and the signal ended the process.
C21_Witness ==
  /\ mode = "cli"
  /\ pc[1] = "closing"
  /\ \A s \in Signals : 1 \notin listeners[s]
  /\ nsignals = 1
  /\ cleanups[1] = 0
  /\ closeCalls[1] = 1
  /\ procState = "exited"
  /\ exitStatus \in {130, 143}

(***************************************************************************)
(* Claims about the page composer.                                         *)
(***************************************************************************)
\* The number of places of the text p at which the text v occurs.
Occurrences(v, p) ==
  Cardinality({i \in 1..(Len(p) - Len(v) + 1) : SubSeq(p, i, i + Len(v) - 1) = v})

\* The five values of the composed page, in the order of their places, and
\* the fixed text before each.
HtmlValues ==
  <<htmlArgs.cssContent, htmlArgs.jsContent, htmlArgs.castDataUri,
    ThemeChars(htmlArgs.theme), NumberToString(htmlArgs.speed)>>

HtmlFixed ==
  <<HtmlHead, HtmlStyleToScript, HtmlScriptToUri, HtmlUriToTheme,
    HtmlThemeToSpeed, HtmlTail>>

\* Where the k-th value starts in the page: after the fixed texts and the
\* values before it.
RECURSIVE SlotStart(_)
SlotStart(k) ==
  IF k = 1 THEN Len(HtmlFixed[1])
  ELSE SlotStart(k - 1) + Len(HtmlValues[k - 1]) + Len(HtmlFixed[k])

\* The characters of a text.
CharsOf(s) == {s[i] : i \in 1..Len(s)}

\* The page without the k-th value: the fixed text and the other values.
RestChars(k) ==
  UNION ({CharsOf(HtmlFixed[j]) : j \in 1..6}
           \cup {CharsOf(HtmlValues[j]) : j \in (1..5) \ {k}})

\* C11 (as stated): the composed page holds each of the five values, and
\* each occurs in it exactly once.
C11_EachValueExactlyOnce ==
  htmlPc = "done" =>
    \A k \in 1..5 : Occurrences(HtmlValues[k], html) = 1

\* C11 (as amended): the composed page holds each of the five values
\* verbatim at its own place of the template, the speed as the number is
\* printed; so each non-empty value occurs at least once, and exactly once
\* when none of its characters occurs in the rest of the page.  A value that
\* also occurs in the fixed text or in another value occurs more often.
C11_EachValueAtItsPlace ==
  htmlPc = "done" =>
    /\ Len(html) = SlotStart(5) + Len(HtmlValues[5]) + Len(HtmlFixed[6])
    /\ \A k \in 1..5 :
         LET v == HtmlValues[k]
         IN  /\ SubSeq(html, SlotStart(k) + 1, SlotStart(k) + Len(v)) = v
             /\ SubSeq(html, SlotStart(k) - Len(HtmlFixed[k]) + 1, SlotStart(k))
                  = HtmlFixed[k]
             /\ v # <<>> => Occurrences(v, html) >= 1
             /\ (v # <<>> /\ CharsOf(v) \cap RestChars(k) = {}) =>
                  Occurrences(v, html) = 1
    /\ (htmlArgs.cssContent # <<>> /\ htmlArgs.cssContent = htmlArgs.jsContent) =>
         Occurrences(htmlArgs.cssContent, html) >= 2
    /\ htmlArgs.speed = Num(1) => Occurrences(<<"1">>, html) > 1

\* C11 witness: the style "q" occurs once in the composed page; the script
\* "0" and the speed, printed as 1.5, are at their places, and "0" occurs in
\* the fixed text as well.
C11_Witness ==
  /\ htmlPc = "done"
  /\ htmlArgs.cssContent = <<"q">>
  /\ htmlArgs.jsContent = <<"0">>
  /\ NumberToString(htmlArgs.speed) = <<"1", ".", "5">>
  /\ Occurrences(<<"q">>, html) = 1
  /\ Occurrences(<<"0">>, html) > 1
  /\ Occurrences(<<"s", "p", "e", "e", "d", ":", " ", "1", ".", "5", ",">>, html) = 1

====
